---------------------------- MODULE Spec2Model ----------------------------
(***************************************************************************)
(* FISE envelope transformation (anbkit/fise): encryptFise / decryptFise,  *)
(* the rule normalizer with its brute-force pre-extraction search, the     *)
(* default rule families, the FiseBuilder length codecs and the XOR        *)
(* cipher.                                                                 *)
(*                                                                         *)
(* Strings and byte arrays are sequences of code units (integers).  A      *)
(* value that a JavaScript function may leave undefined is the integer     *)
(* `undefined`; NaN is the integer `NaN`.  The fields that are tested for  *)
(* undefined (timestamp, productId, the saltRange of a rule set) are       *)
(* otherwise non-negative or records, and no decoded length reaches `NaN`. *)
(***************************************************************************)
EXTENDS Integers, Sequences, FiniteSets, TLC

(***************************************************************************)
(* Bounds of the model.                                                    *)
(***************************************************************************)
\* payloads are the sequences over PayloadChars of at most this length
MaxPayloadLen == 2
\* timestamps passed in the options are 0..MaxTimestamp (or omitted)
MaxTimestamp == 3
\* the salt length draws modelled are the LowDraws smallest values of the
\* salt range and its HighDraws largest values
LowDraws == 4
HighDraws == 1
\* the drawn salt repeats a drawn pattern of this many characters
SaltPeriod == 2
\* envelopes handed to decrypt by a caller that did not build them with
\* encrypt have at most this many elements
MaxForeignLen == 6
\* the alphabets handed to customChars have MinAlphabetLen..MaxAlphabetLen
\* characters, the shortest one short of the 10 the preset asks for
MinAlphabetLen == 9
MaxAlphabetLen == 12
\* envelopes split by extractSalt / stripSalt have at most this many elements
MaxSplitLen == 5

(***************************************************************************)
(* JavaScript values and built-ins used by the source.                     *)
(***************************************************************************)
undefined == -1
NaN == -9999

Max(a, b) == IF a >= b THEN a ELSE b
Min(a, b) == IF a <= b THEN a ELSE b

\* String.prototype.slice / Uint8Array.prototype.slice (start, end): a
\* negative index counts from the end, both are clamped to [0, length].
slice(s, start, end) ==
    LET from == IF start < 0 THEN Max(Len(s) + start, 0) ELSE Min(start, Len(s))
        to   == IF end < 0 THEN Max(Len(s) + end, 0) ELSE Min(end, Len(s))
    IN  IF from < to THEN SubSeq(s, from + 1, to) ELSE <<>>

\* slice(start) with the end omitted
sliceFrom(s, start) == slice(s, start, Len(s))

\* "x".repeat(n) / new Uint8Array(n)
repeat(c, n) == [i \in 1..n |-> c]

\* String.prototype.indexOf for one character: first index (0-based) or -1
indexOf(alphabet, c) ==
    IF \E k \in 1..Len(alphabet) : alphabet[k] = c
    THEN (CHOOSE k \in 1..Len(alphabet) :
             alphabet[k] = c /\ \A j \in 1..(k - 1) : alphabet[j] # c) - 1
    ELSE -1

\* a ^ b on non-negative integers
RECURSIVE BitXor(_, _)
BitXor(a, b) ==
    IF a = 0 THEN b
    ELSE IF b = 0 THEN a
    ELSE (((a % 2) + (b % 2)) % 2) + 2 * BitXor(a \div 2, b \div 2)

\* character codes
Ch0 == 48
ChA == 65
Cha == 97
ChPlus == 43
ChMinus == 45
ChSlash == 47
Chx == 120
ChX == 88

\* the value of a character as a digit (case-insensitive), or -1
DigitValue(c) ==
    IF c < Ch0 THEN -1
    ELSE IF c <= Ch0 + 9 THEN c - Ch0
    ELSE IF c < ChA THEN -1
    ELSE IF c <= ChA + 25 THEN c - ChA + 10
    ELSE IF c < Cha THEN -1
    ELSE IF c <= Cha + 25 THEN c - Cha + 10
    ELSE -1

\* the character of a digit value, as Number.prototype.toString writes it
DigitChar(d) == IF d < 10 THEN Ch0 + d ELSE Cha + (d - 10)

\* white space that parseInt skips (tab, LF, VT, FF, CR, space)
IsWhiteSpace(c) == (c >= 9 /\ c <= 13) \/ c = 32

\* Number.prototype.toString(radix) of an integer: a negative one gives "-"
\* followed by the digits of its absolute value
RECURSIVE toString(_, _)
toString(n, radix) ==
    IF n < 0 THEN <<ChMinus>> \o toString(0 - n, radix)
    ELSE IF n < radix THEN <<DigitChar(n)>>
    ELSE Append(toString(n \div radix, radix), DigitChar(n % radix))

\* String.prototype.padStart(targetLength, padChar)
padStart(s, targetLength, padChar) ==
    IF Len(s) >= targetLength THEN s
    ELSE repeat(padChar, targetLength - Len(s)) \o s

\* the digits parseInt accumulates from position k on: it stops at the first
\* character that is no digit of the radix
RECURSIVE parseDigits(_, _, _, _)
parseDigits(s, k, radix, acc) ==
    IF k > Len(s) THEN acc
    ELSE LET d == DigitValue(s[k])
         IN  IF d < 0 \/ d >= radix THEN acc
             ELSE parseDigits(s, k + 1, radix, acc * radix + d)

\* the number that starts at position k, NaN when no digit is there
parseUnsigned(s, k, radix) ==
    IF k > Len(s) THEN NaN
    ELSE LET d == DigitValue(s[k])
         IN  IF d < 0 \/ d >= radix THEN NaN
             ELSE parseDigits(s, k + 1, radix, d)

\* with radix 16 a leading 0x / 0X is skipped
parsePrefixed(s, k, radix) ==
    IF radix = 16 /\ k + 1 <= Len(s) /\ s[k] = Ch0 /\ s[k + 1] \in {Chx, ChX}
    THEN parseUnsigned(s, k + 2, radix)
    ELSE parseUnsigned(s, k, radix)

negate(v) == IF v = NaN THEN NaN ELSE 0 - v

\* a sign is skipped
parseSigned(s, k, radix) ==
    IF k > Len(s) THEN NaN
    ELSE IF s[k] = ChMinus THEN negate(parsePrefixed(s, k + 1, radix))
    ELSE IF s[k] = ChPlus THEN parsePrefixed(s, k + 1, radix)
    ELSE parsePrefixed(s, k, radix)

\* leading white space is skipped
RECURSIVE skipWhiteSpace(_, _)
skipWhiteSpace(s, k) ==
    IF k <= Len(s) /\ IsWhiteSpace(s[k]) THEN skipWhiteSpace(s, k + 1) ELSE k

\* parseInt(string, radix)
parseInt(s, radix) ==
    LET k == skipWhiteSpace(s, 1) IN parseSigned(s, k, radix)

(***************************************************************************)
(* Constants of the source.                                                *)
(***************************************************************************)
DEFAULT_SALT_RANGE == [min |-> 10, max |-> 99]
MULTIPLIER == 7
MODULO == 11
DUMMY_CHAR == Chx

\* randomSalt's ALPHABET: a-z, A-Z, 0-9
ALPHABET ==
    [k \in 1..62 |-> IF k <= 26 THEN Cha + (k - 1)
                     ELSE IF k <= 52 THEN ChA + (k - 27)
                     ELSE Ch0 + (k - 53)]

(***************************************************************************)
(* Contexts, options and rule sets.                                        *)
(*                                                                         *)
(* A context or options object is a record whose fields hold a value or    *)
(* `undefined`; metadata is the object { productId } given by its          *)
(* productId.  A rule set is a record: its name selects the three rule     *)
(* functions, `alphabet` is the argument of FiseBuilder.customChars, and   *)
(* saltRange is the optional range (`given` is FALSE when it is omitted).   *)
(***************************************************************************)
EmptyContext == [timestamp |-> undefined, saltLength |-> undefined, metadata |-> undefined]
NoSaltRange == [given |-> FALSE, min |-> undefined, max |-> undefined]

defaultRules == [name |-> "defaultRules", alphabet |-> <<>>, saltRange |-> NoSaltRange]
defaultBinaryRules == [name |-> "defaultBinaryRules", alphabet |-> <<>>, saltRange |-> NoSaltRange]

\* t = ctx.timestamp ?? 0
timestampOrZero(ctx) == IF ctx.timestamp = undefined THEN 0 ELSE ctx.timestamp

\* len = cipherText.length || 1
lengthOrOne(cipherText) == IF Len(cipherText) = 0 THEN 1 ELSE Len(cipherText)

\* a variant of defaultRules.offset that adds the timestamp itself
defaultRules_offset_noResidue(cipherText, ctx) ==
    (lengthOrOne(cipherText) * MULTIPLIER + timestampOrZero(ctx))
        % lengthOrOne(cipherText)

\* defaultRules.offset
defaultRules_offset(cipherText, ctx) ==
    LET t   == timestampOrZero(ctx)
        len == lengthOrOne(cipherText)
    IN  (len * MULTIPLIER + (t % MODULO)) % len

\* a variant of defaultRules.encodeLength without the padding: len.toString(36)
defaultRules_encodeLength_unpadded(len, ctx) == toString(len, 36)

\* defaultRules.encodeLength: len.toString(36).padStart(2, "0")
defaultRules_encodeLength(len, ctx) == padStart(toString(len, 36), 2, Ch0)

\* parseInt(<<a, b>>, 36) tabulated once for the two-character tokens over
\* ASCII, which the search decodes at every position
parseInt36OfPair == [a \in 0..127 |-> [b \in 0..127 |-> parseInt(<<a, b>>, 36)]]

\* defaultRules.decodeLength: parseInt(encoded, 36)
defaultRules_decodeLength(encoded, ctx) ==
    IF Len(encoded) = 2 /\ encoded[1] <= 127 /\ encoded[2] <= 127
    THEN parseInt36OfPair[encoded[1]][encoded[2]]
    ELSE parseInt(encoded, 36)

\* defaultBinaryRules.offset
defaultBinaryRules_offset(cipherText, ctx) ==
    LET t   == timestampOrZero(ctx)
        len == lengthOrOne(cipherText)
    IN  (len * MULTIPLIER + (t % MODULO)) % len

\* a variant of defaultBinaryRules.encodeLength that writes little-endian
defaultBinaryRules_encodeLength_littleEndian(len, ctx) ==
    LET u == len % 65536 IN <<u % 256, u \div 256>>

\* defaultBinaryRules.encodeLength: DataView.setUint16(0, len, big-endian)
defaultBinaryRules_encodeLength(len, ctx) ==
    LET u == len % 65536 IN <<u \div 256, u % 256>>

\* defaultBinaryRules.decodeLength: DataView.getUint16(0, big-endian)
defaultBinaryRules_decodeLength(encoded, ctx) == encoded[1] * 256 + encoded[2]

(***************************************************************************)
(* FiseBuilder presets.                                                    *)
(***************************************************************************)
PresetSaltRange == [given |-> TRUE, min |-> 10, max |-> 99]

\* the base62 alphabet of FiseBuilder.base62: 0-9, A-Z, a-z
base62 ==
    [k \in 1..62 |-> IF k <= 10 THEN Ch0 + (k - 1)
                     ELSE IF k <= 36 THEN ChA + (k - 11)
                     ELSE Cha + (k - 37)]

\* the alphabet of FiseBuilder.base64: A-Z, a-z, 0-9, +, /
base64Chars ==
    [k \in 1..64 |-> IF k <= 26 THEN ChA + (k - 1)
                     ELSE IF k <= 52 THEN Cha + (k - 27)
                     ELSE IF k <= 62 THEN Ch0 + (k - 53)
                     ELSE IF k = 63 THEN ChPlus ELSE ChSlash]

FiseBuilder_hex == [name |-> "hex", alphabet |-> <<>>, saltRange |-> PresetSaltRange]
FiseBuilder_base62 == [name |-> "base62", alphabet |-> <<>>, saltRange |-> PresetSaltRange]
FiseBuilder_base64 == [name |-> "base64", alphabet |-> <<>>, saltRange |-> PresetSaltRange]
FiseBuilder_lengthBased == [name |-> "lengthBased", alphabet |-> <<>>, saltRange |-> PresetSaltRange]

\* FiseBuilder.customChars(alphabet): throws for fewer than 10 characters
customCharsThrows(alphabet) == Len(alphabet) < 10
FiseBuilder_customChars(alphabet) ==
    [name |-> "customChars", alphabet |-> alphabet, saltRange |-> PresetSaltRange]

\* the offset shared by the defaults, hex, base62, base64 and customChars presets
preset_offset(cipherText, ctx) ==
    LET t   == timestampOrZero(ctx)
        len == lengthOrOne(cipherText)
    IN  (len * 7 + (t % 11)) % len

\* FiseBuilder.lengthBased(modulo = 7).offset
lengthBased_offset(cipherText, ctx) ==
    LET len == lengthOrOne(cipherText) IN len % 7

\* the rule set of the binary tests that reads ctx.metadata: defaultBinaryRules
\* with offset (len * 7 + (t % 11) + (productId % 5)) % len
metadataRules == [name |-> "metadataRules", alphabet |-> <<>>, saltRange |-> NoSaltRange]
metadataRules_offset(cipherText, ctx) ==
    LET productId == IF ctx.metadata = undefined THEN 0 ELSE ctx.metadata
        t         == timestampOrZero(ctx)
        len       == lengthOrOne(cipherText)
    IN  (len * 7 + (t % 11) + (productId % 5)) % len

\* do { result = alphabet[n % base] + result; n = Math.floor(n / base) } while (n > 0)
RECURSIVE encodeLoop(_, _, _)
encodeLoop(alphabet, n, result) ==
    LET base == Len(alphabet)
        r    == <<alphabet[(n % base) + 1]>> \o result
        q    == n \div base
    IN  IF q > 0 THEN encodeLoop(alphabet, q, r) ELSE r

\* a variant of the decoding loop that multiplies by 10 whatever the alphabet
RECURSIVE decodeLoop_base10(_, _, _, _)
decodeLoop_base10(alphabet, encoded, i, result) ==
    IF i > Len(encoded) THEN result
    ELSE LET idx == indexOf(alphabet, encoded[i])
         IN  IF idx = -1 THEN NaN
             ELSE decodeLoop_base10(alphabet, encoded, i + 1, result * 10 + idx)

\* for (i...) { idx = alphabet.indexOf(encoded[i]); if (idx === -1) return NaN;
\*              result = result * base + idx } return result
RECURSIVE decodeLoop(_, _, _, _)
decodeLoop(alphabet, encoded, i, result) ==
    IF i > Len(encoded) THEN result
    ELSE LET idx == indexOf(alphabet, encoded[i])
         IN  IF idx = -1 THEN NaN
             ELSE decodeLoop(alphabet, encoded, i + 1, result * Len(alphabet) + idx)

hex_encodeLength(len, ctx) == padStart(toString(len, 16), 2, Ch0)
hex_decodeLength(encoded, ctx) == parseInt(encoded, 16)

base62_encodeLength(len, ctx) == padStart(encodeLoop(base62, len, <<>>), 2, Ch0)
base62_decodeLength(encoded, ctx) == decodeLoop(base62, encoded, 1, 0)

base64_encodeLength(len, ctx) ==
    IF len = 0 THEN <<base64Chars[1], base64Chars[1]>>
    ELSE padStart(encodeLoop(base64Chars, len, <<>>), 2, base64Chars[1])
base64_decodeLength(encoded, ctx) == decodeLoop(base64Chars, encoded, 1, 0)

customChars_encodeLength(alphabet, len, ctx) ==
    IF len = 0 THEN <<alphabet[1], alphabet[1]>>
    ELSE padStart(encodeLoop(alphabet, len, <<>>), 2, alphabet[1])
customChars_decodeLength(alphabet, encoded, ctx) == decodeLoop(alphabet, encoded, 1, 0)

(***************************************************************************)
(* The three rule functions of a rule set.                                 *)
(***************************************************************************)
\* a rule set a caller supplies, whose offset depends on the content of the
\* ciphertext: offset(c, ctx) { return (c.charCodeAt(0) || 0) % (c.length || 1) };
\* its encodeLength and decodeLength are those of defaultRules
callerRules == [name |-> "callerRules", alphabet |-> <<>>, saltRange |-> NoSaltRange]
callerRules_offset(cipherText, ctx) ==
    (IF Len(cipherText) = 0 THEN 0 ELSE cipherText[1]) % lengthOrOne(cipherText)

\* a rule set a caller supplies with head-based salt extraction:
\* offset(c) { return Math.floor(c.length / 2) },
\* extractSalt(e, n) { return e.slice(0, n) }, stripSalt(e, n) { return e.slice(n) };
\* its encodeLength and decodeLength are those of defaultRules
headRules == [name |-> "headRules", alphabet |-> <<>>, saltRange |-> NoSaltRange]
headRules_offset(cipherText, ctx) == Len(cipherText) \div 2
headRules_extractSalt(envelope, saltLen, ctx) == slice(envelope, 0, saltLen)

\* the multiFactor preset; its timestamps are wide: a non-negative integer
\* hi * 2^31 + lo held as its two parts, `given` FALSE when ctx.timestamp is
\* undefined
FiseBuilder_multiFactor ==
    [name |-> "multiFactor", alphabet |-> <<>>, saltRange |-> PresetSaltRange]
INT32_MAX == 2147483647
NoTimestamp == [given |-> FALSE, hi |-> 0, lo |-> 0]

\* t = ctx.timestamp ?? 0
wideTimestampOrZero(ctx) ==
    IF ctx.timestamp.given THEN ctx.timestamp ELSE [NoTimestamp EXCEPT !.given = TRUE]

\* t % m for a wide t and a small positive m: 2^31 % m is (INT32_MAX % m + 1) % m
wideMod(t, m) ==
    ((t.hi % m) * (((INT32_MAX % m) + 1) % m) + (t.lo % m)) % m

\* multiFactor: (len * 7 + (t % 11) + (saltLen * 3)) % len
multiFactor_offset(cipherText, ctx) ==
    LET t       == wideTimestampOrZero(ctx)
        len     == lengthOrOne(cipherText)
        saltLen_ == IF ctx.saltLength = undefined THEN 10 ELSE ctx.saltLength
    IN  (len * 7 + wideMod(t, 11) + (saltLen_ * 3)) % len

\* a rule set a caller supplies, whose offset depends on the length of the
\* ciphertext only and puts the token after it: offset(c, ctx) { return c.length };
\* its encodeLength and decodeLength are those of defaultRules
tailRules == [name |-> "tailRules", alphabet |-> <<>>, saltRange |-> NoSaltRange]
tailRules_offset(cipherText, ctx) == Len(cipherText)

offset(rules, cipherText, ctx) ==
    CASE rules.name = "defaultRules"       -> defaultRules_offset(cipherText, ctx)
      [] rules.name = "callerRules"        -> callerRules_offset(cipherText, ctx)
      [] rules.name = "tailRules"          -> tailRules_offset(cipherText, ctx)
      [] rules.name = "multiFactor"        -> multiFactor_offset(cipherText, ctx)
      [] rules.name = "headRules"          -> headRules_offset(cipherText, ctx)
      [] rules.name = "defaultBinaryRules" -> defaultBinaryRules_offset(cipherText, ctx)
      [] rules.name = "lengthBased"        -> lengthBased_offset(cipherText, ctx)
      [] rules.name = "metadataRules"      -> metadataRules_offset(cipherText, ctx)
      [] OTHER                             -> preset_offset(cipherText, ctx)

encodeLength(rules, len, ctx) ==
    CASE rules.name = "defaultRules"       -> defaultRules_encodeLength(len, ctx)
      [] rules.name \in {"defaultBinaryRules", "metadataRules"}
                                           -> defaultBinaryRules_encodeLength(len, ctx)
      [] rules.name = "hex"                -> hex_encodeLength(len, ctx)
      [] rules.name = "base62"             -> base62_encodeLength(len, ctx)
      [] rules.name = "base64"             -> base64_encodeLength(len, ctx)
      [] rules.name = "customChars"        -> customChars_encodeLength(rules.alphabet, len, ctx)
      [] OTHER                             -> defaultRules_encodeLength(len, ctx)

decodeLength(rules, encoded, ctx) ==
    CASE rules.name = "defaultRules"       -> defaultRules_decodeLength(encoded, ctx)
      [] rules.name \in {"defaultBinaryRules", "metadataRules"}
                                           -> defaultBinaryRules_decodeLength(encoded, ctx)
      [] rules.name = "hex"                -> hex_decodeLength(encoded, ctx)
      [] rules.name = "base62"             -> base62_decodeLength(encoded, ctx)
      [] rules.name = "base64"             -> base64_decodeLength(encoded, ctx)
      [] rules.name = "customChars"        -> customChars_decodeLength(rules.alphabet, encoded, ctx)
      [] OTHER                             -> defaultRules_decodeLength(encoded, ctx)

\* rules.saltRange ?? DEFAULT_SALT_RANGE
saltRangeOf(rules) ==
    IF rules.saltRange.given THEN rules.saltRange ELSE DEFAULT_SALT_RANGE

(***************************************************************************)
(* The cipher: element-wise XOR with the salt, wrapping around.            *)
(***************************************************************************)
\* plaintext[i] ^ salt[i % salt.length]; an empty salt gives undefined, and
\* x ^ undefined is x
xorWithSalt(data, salt) ==
    [i \in 1..Len(data) |->
        IF Len(salt) = 0 THEN data[i]
        ELSE BitXor(data[i], salt[((i - 1) % Len(salt)) + 1])]

\* a variant that does not wrap around: cipherText[i] ^ salt[i]
xorWithSalt_noWrap(data, salt) ==
    [i \in 1..Len(data) |->
        IF i > Len(salt) THEN data[i] ELSE BitXor(data[i], salt[i])]

cipher_encrypt(plaintext, salt) == xorWithSalt(plaintext, salt)
cipher_decrypt(cipherText, salt) == xorWithSalt(cipherText, salt)

(***************************************************************************)
(* Random source.  Math.random() is an input: `k` is the value of          *)
(* Math.floor(Math.random() * n), `draws` the sequence of such values      *)
(* that randomSalt consumes.                                               *)
(***************************************************************************)
\* saltRange.min + Math.floor(Math.random() * Math.max(range, 1))
\* a variant of the draw that lands one above: saltRange.min + 1 + Math.floor(...)
drawSaltLen_oneAbove(saltRange, k) == saltRange.min + 1 + k

drawSaltLen(saltRange, k) == saltRange.min + k
drawSaltLenChoices(saltRange) == 0..(Max(saltRange.max - saltRange.min + 1, 1) - 1)

\* randomSalt(len): out += ALPHABET[Math.floor(Math.random() * n)], len times
randomSalt(len, draws) == [i \in 1..len |-> ALPHABET[draws[i] + 1]]

\* new TextEncoder().encode(str): the UTF-8 bytes of each character (of the
\* Basic Multilingual Plane, surrogates aside)
utf8Bytes(c) ==
    IF c < 128 THEN <<c>>
    ELSE IF c < 2048 THEN <<192 + (c \div 64), 128 + (c % 64)>>
    ELSE <<224 + (c \div 4096), 128 + ((c \div 64) % 64), 128 + (c % 64)>>

RECURSIVE TextEncoder_encode(_)
TextEncoder_encode(str) ==
    IF str = <<>> THEN <<>>
    ELSE IF Len(str) = 1 THEN utf8Bytes(str[1])
    ELSE TextEncoder_encode(SubSeq(str, 1, Len(str) \div 2))
             \o TextEncoder_encode(SubSeq(str, (Len(str) \div 2) + 1, Len(str)))

\* a variant that fills the salt with the drawn values themselves
randomSaltBinary_raw(len, draws) == [i \in 1..len |-> draws[i]]

\* randomSaltBinary(len): new TextEncoder().encode(randomSalt(len))
randomSaltBinary(len, draws) == TextEncoder_encode(randomSalt(len, draws))

(***************************************************************************)
(* normalizeFiseRules.                                                     *)
(***************************************************************************)
\* encodedLengthSize = rules.encodeLength(10, {}).length
encodedLengthSize(rules) == Len(encodeLength(rules, 10, EmptyContext))

\* a variant of extractSalt that takes the salt from the head: envelope.slice(0, saltLen)
extractSalt_head(envelope, saltLen, ctx) == slice(envelope, 0, saltLen)

\* default extractSalt: envelope.slice(-saltLen)
extractSalt(envelope, saltLen, ctx) == sliceFrom(envelope, 0 - saltLen)

\* default stripSalt: envelope.slice(0, envelope.length - saltLen)
stripSalt(envelope, saltLen, ctx) == slice(envelope, 0, Len(envelope) - saltLen)

\* what preExtractLength returns; `threw` stands for the thrown Error, `pos`
\* is the loop variable i at the return
NoMatch == [threw |-> TRUE, saltLength |-> undefined, encodedLength |-> <<>>,
            withoutLen |-> <<>>, pos |-> undefined]

\* the least element of a non-empty set of integers: the first value an
\* ascending loop reaches
Minimum(S) == CHOOSE x \in S : \A y \in S : x <= y

\* the context of the search's offset calls without the candidate salt length
searchContext_base(ctxBase, len) == ctxBase

\* { ...ctxBase, saltLength: len }: the context the search hands to offset
searchContext(ctxBase, len) == [ctxBase EXCEPT !.saltLength = len]

\* the body of the inner loop at position i, for salt length len: TRUE when it
\* reaches the return (the token decodes to len and the offset recomputed on the
\* candidate ciphertext is i); size is the encodedLengthSize the closure captured
matchesAt(rules, size, withoutSalt, len, i, ctxBase) ==
    LET encoded    == slice(withoutSalt, i, i + size)
        decodedLen == decodeLength(rules, encoded, ctxBase)
    IN  /\ ~(decodedLen = NaN \/ decodedLen # len)
        /\ LET candidate == slice(withoutSalt, 0, i) \o sliceFrom(withoutSalt, i + size)
               expectedOffset ==
                   offset(rules, candidate, searchContext(ctxBase, len))
           IN  ~(expectedOffset # i)

\* the positions of the inner loop, for (i = 0; i <= withoutSalt.length - size; i++),
\* at which it would return
matchingPositions(rules, size, withoutSalt, len, ctxBase) ==
    {i \in 0..(Len(withoutSalt) - size) :
        matchesAt(rules, size, withoutSalt, len, i, ctxBase)}

\* one pass of the outer loop, for salt length len: TRUE when the inner loop
\* returns (if (withoutSalt.length < size) continue; then the inner loop)
returnsAt(rules, size, envelope, len, ctxBase) ==
    LET withoutSalt == stripSalt(envelope, len, ctxBase)
    IN  /\ ~(Len(withoutSalt) < size)
        /\ \E i \in 0..(Len(withoutSalt) - size) :
               matchesAt(rules, size, withoutSalt, len, i, ctxBase)

\* the outer loop entered once even when the range is empty
searchCandidates_atLeastOne(rules) ==
    (saltRangeOf(rules).min)..Max(saltRangeOf(rules).max, saltRangeOf(rules).min)

\* the salt lengths the outer loop examines: for (len = min; len <= max; len++)
searchCandidates(rules) == (saltRangeOf(rules).min)..(saltRangeOf(rules).max)

\* the salt lengths of the outer loop at which the inner loop would return
matchingSaltLengths(rules, size, envelope, ctxBase) ==
    {len \in searchCandidates(rules) : returnsAt(rules, size, envelope, len, ctxBase)}

\* what preExtractLength returns for the pair (len, i) its loops stop at
extracted(size, withoutSalt, len, i) ==
    [threw |-> FALSE, saltLength |-> len,
     encodedLength |-> slice(withoutSalt, i, i + size),
     withoutLen |-> withoutSalt, pos |-> i]

\* preExtractLength given the salt lengths at which the inner loop would
\* return: both loops ascend, so the first match is the least salt length and,
\* for it, the least position; the throw follows when no pair matches
firstMatch(rules, size, envelope, ctxBase, lens) ==
    IF lens = {} THEN NoMatch
    ELSE extracted(size, stripSalt(envelope, Minimum(lens), ctxBase), Minimum(lens),
                   Minimum(matchingPositions(rules, size,
                               stripSalt(envelope, Minimum(lens), ctxBase),
                               Minimum(lens), ctxBase)))

preExtractLength(rules, envelope, ctxBase) ==
    firstMatch(rules, encodedLengthSize(rules), envelope, ctxBase,
               matchingSaltLengths(rules, encodedLengthSize(rules), envelope, ctxBase))

\* the pairs (len, i) the loops reach before preExtractLength returns pre
visitedBySearch(pre, len, i) ==
    pre.threw \/ len < pre.saltLength \/ (len = pre.saltLength /\ i <= pre.pos)

\* the offset calls the search makes before it returns pre: one for every pair
\* reached whose token decodes to the candidate salt length, each with the
\* candidate salt length and the context handed to offset
searchOffsetCalls(rules, size, envelope, ctxBase, pre) ==
    {[len |-> len, ctx |-> searchContext(ctxBase, len)] :
        len \in {l \in searchCandidates(rules) :
                    \E i \in 0..(Len(stripSalt(envelope, l, ctxBase)) - size) :
                        /\ visitedBySearch(pre, l, i)
                        /\ decodeLength(rules,
                               slice(stripSalt(envelope, l, ctxBase), i, i + size),
                               ctxBase) = l}}

(***************************************************************************)
(* encryptFise / decryptFise.                                              *)
(***************************************************************************)
\* the context encrypt hands to the rule functions
encryptContext(options, saltLen) ==
    [timestamp |-> options.timestamp, saltLength |-> saltLen, metadata |-> options.metadata]

\* a variant of the clamp that passes the raw offset through
clampOffset_unclamped(offsetRaw, cipherText) == offsetRaw

\* offset = Math.max(0, Math.min(offsetRaw, cipherText.length))
clampOffset(offsetRaw, cipherText) == Max(0, Min(offsetRaw, Len(cipherText)))

\* a variant of encryptFise that leaves the length token out
encryptFise_noToken(plaintext, rules, options, saltLen, salt) ==
    cipher_encrypt(plaintext, salt) \o salt

\* a variant of encryptFise that puts the salt before the ciphertext
encryptFise_saltFirst(plaintext, rules, options, saltLen, salt) ==
    salt \o cipher_encrypt(plaintext, salt)

\* the rule functions encrypt calls, in order: the probe of normalization,
\* then encodeLength(saltLen, ctx) and offset(cipherText, ctx)
encryptFise_ruleCalls == <<"encodeLength", "encodeLength", "offset">>

\* encryptFise with the values drawn from Math.random given: saltLen and salt
encryptFise(plaintext, rules, options, saltLen, salt) ==
    LET ctx        == encryptContext(options, saltLen)
        cipherText == cipher_encrypt(plaintext, salt)
        encodedLen == encodeLength(rules, saltLen, ctx)
        offsetRaw  == offset(rules, cipherText, ctx)
        off        == clampOffset(offsetRaw, cipherText)
        withLen    == slice(cipherText, 0, off) \o encodedLen \o sliceFrom(cipherText, off)
    IN  withLen \o salt

\* what decrypt returns: the payload, or `threw` with the error thrown;
\* saltLength and pos are the search's result, encodedPos the position the
\* token was removed at
InferError == "FISE: cannot infer salt length from envelope."
OffsetError == "FISE: cannot find encoded length at expected offset."

\* a placeholder of one character whatever the ciphertext's length
placeholder_unit(cipherTextLen) == repeat(DUMMY_CHAR, 1)

\* DUMMY_CHAR.repeat(Math.max(1, cipherTextLen))
placeholder(cipherTextLen) == repeat(DUMMY_CHAR, Max(1, cipherTextLen))

\* decryptFise from the fast-path recomputation on: the offset is recomputed
\* with a placeholder of the ciphertext's length and the token is verified
\* there before the ciphertext is rebuilt and deciphered
decryptFise_fastPath(envelope, rules, ctx, pre) ==
    LET saltLength     == pre.saltLength
        ctxWithSalt    == [ctx EXCEPT !.saltLength = saltLength]
        salt           == extractSalt(envelope, saltLength, ctxWithSalt)
        encodedSize    == encodedLengthSize(rules)
        cipherTextLen  == Len(pre.withoutLen) - encodedSize
        expectedOffset == offset(rules, placeholder(cipherTextLen), ctxWithSalt)
        encodedPos     == Max(0, Min(expectedOffset, cipherTextLen))
    IN  IF encodedPos + encodedSize > Len(pre.withoutLen)
           \/ slice(pre.withoutLen, encodedPos, encodedPos + encodedSize)
                  # pre.encodedLength
        THEN [threw |-> TRUE, error |-> OffsetError, value |-> <<>>,
              saltLength |-> saltLength, pos |-> pre.pos,
              encodedPos |-> encodedPos, salt |-> salt, cipherText |-> <<>>]
        ELSE LET cipherText == slice(pre.withoutLen, 0, encodedPos)
                                   \o sliceFrom(pre.withoutLen, encodedPos + encodedSize)
             IN  [threw |-> FALSE, error |-> "", value |-> cipher_decrypt(cipherText, salt),
                  saltLength |-> saltLength, pos |-> pre.pos,
                  encodedPos |-> encodedPos, salt |-> salt,
                  cipherText |-> cipherText]

\* the result of a decrypt call whose search found no pair
inferenceFailure ==
    [threw |-> TRUE, error |-> InferError, value |-> <<>>,
     saltLength |-> undefined, pos |-> undefined, encodedPos |-> undefined,
     salt |-> <<>>, cipherText |-> <<>>]

\* the context decrypt hands to the search
decryptContext(options) ==
    [timestamp |-> options.timestamp, saltLength |-> undefined,
     metadata |-> options.metadata]

\* decryptFise(envelope, cipher, rules, options): the search, then the fast path
decryptFise_after(envelope, rules, ctx, pre) ==
    IF pre.threw THEN inferenceFailure
    ELSE decryptFise_fastPath(envelope, rules, ctx, pre)

decryptFise(envelope, rules, options) ==
    decryptFise_after(envelope, rules, decryptContext(options),
                      preExtractLength(rules, envelope, decryptContext(options)))

(***************************************************************************)
(* Binary variant: fiseBinaryEncrypt / fiseBinaryDecrypt.                  *)
(***************************************************************************)
\* normalizeFiseRulesBinary: the normalizer of the byte variant, the same
\* algorithm on byte sequences
encodedLengthSizeBinary(rules) == encodedLengthSize(rules)
extractSaltBinary(envelope, saltLen, ctx) == extractSalt(envelope, saltLen, ctx)
preExtractLengthBinary(rules, envelope, ctxBase) == preExtractLength(rules, envelope, ctxBase)

\* envelope.set(part, pos) on the zero-filled array under construction
setAt(arr, part, pos) ==
    [i \in 1..Len(arr) |->
        IF i > pos /\ i <= pos + Len(part) THEN part[i - pos] ELSE arr[i]]

fiseBinaryEncrypt(binaryData, rules, options, saltLen, salt) ==
    LET ctx        == encryptContext(options, saltLen)
        cipherText == cipher_encrypt(binaryData, salt)
        encodedLen == encodeLength(rules, saltLen, ctx)
        offsetRaw  == offset(rules, cipherText, ctx)
        off        == clampOffset(offsetRaw, cipherText)
        totalSize  == Len(cipherText) + Len(encodedLen) + Len(salt)
        e0         == repeat(0, totalSize)
        e1         == setAt(e0, slice(cipherText, 0, off), 0)
        e2         == setAt(e1, encodedLen, off)
        e3         == setAt(e2, sliceFrom(cipherText, off), off + Len(encodedLen))
    IN  setAt(e3, salt, off + Len(encodedLen) + (Len(cipherText) - off))

\* actualEncoded.every((b, i) => b === encodedLengthBinary[i])
everyEqual(actualEncoded, encodedLength) ==
    \A i \in 1..Len(actualEncoded) :
        i <= Len(encodedLength) /\ actualEncoded[i] = encodedLength[i]

\* fiseBinaryDecrypt from the fast-path recomputation on
fiseBinaryDecrypt_fastPath(envelope, rules, ctx, pre) ==
    LET saltLength     == pre.saltLength
        ctxWithSalt    == [ctx EXCEPT !.saltLength = saltLength]
        salt           == extractSaltBinary(envelope, saltLength, ctxWithSalt)
        encodedSize    == encodedLengthSizeBinary(rules)
        cipherTextLen  == Len(pre.withoutLen) - encodedSize
        expectedOffset == offset(rules, repeat(0, Max(1, cipherTextLen)), ctxWithSalt)
        encodedPos     == Max(0, Min(expectedOffset, cipherTextLen))
        actualEncoded  == slice(pre.withoutLen, encodedPos, encodedPos + encodedSize)
    IN  IF encodedPos + encodedSize > Len(pre.withoutLen)
           \/ ~everyEqual(actualEncoded, pre.encodedLength)
        THEN [threw |-> TRUE, error |-> OffsetError, value |-> <<>>,
              saltLength |-> saltLength, pos |-> pre.pos,
              encodedPos |-> encodedPos, salt |-> salt, cipherText |-> <<>>]
        ELSE LET c0 == repeat(0, cipherTextLen)
                 c1 == setAt(c0, slice(pre.withoutLen, 0, encodedPos), 0)
                 cipherText ==
                     setAt(c1, sliceFrom(pre.withoutLen, encodedPos + encodedSize),
                           encodedPos)
             IN  [threw |-> FALSE, error |-> "", value |-> cipher_decrypt(cipherText, salt),
                  saltLength |-> saltLength, pos |-> pre.pos,
                  encodedPos |-> encodedPos, salt |-> salt,
                  cipherText |-> cipherText]

fiseBinaryDecrypt_after(envelope, rules, ctx, pre) ==
    IF pre.threw THEN inferenceFailure
    ELSE fiseBinaryDecrypt_fastPath(envelope, rules, ctx, pre)

\* fiseBinaryDecrypt(envelope, rules, options)
fiseBinaryDecrypt(envelope, rules, options) ==
    fiseBinaryDecrypt_after(envelope, rules, decryptContext(options),
                            preExtractLengthBinary(rules, envelope, decryptContext(options)))

(***************************************************************************)
(* Inputs of the model.                                                    *)
(***************************************************************************)
\* characters of payloads: 'Q' and 'a' ('Q' ^ 'a' = '0', 'a' ^ 'a' = 0)
PayloadChars == {81, 97}
\* indices into ALPHABET that the salt draws take: 'a' and '0'
SaltDraws == {0, 52}
\* characters of envelopes that were not built by encrypt: '0', 'a', 'x'
ForeignChars == {48, 97, 120}
\* the productId values of the metadata objects
ProductIds == {123, 456}
ByteValues == 0..255

RECURSIVE SeqsOfLen(_, _)
SeqsOfLen(S, n) ==
    IF n = 0 THEN {<<>>}
    ELSE {Append(q, c) : q \in SeqsOfLen(S, n - 1), c \in S}
SeqsUpTo(S, n) == UNION {SeqsOfLen(S, k) : k \in 0..n}

Payloads == SeqsUpTo(PayloadChars, MaxPayloadLen)
Timestamps == {undefined} \cup 0..MaxTimestamp
\* the timestamps of the binary calls: none, and one that moves the offset
BinaryTimestamps == {undefined, MaxTimestamp - 1}
NoOptions == [timestamp |-> undefined, metadata |-> undefined]
TimestampOptions == [timestamp : Timestamps, metadata : {undefined}]
MetadataOptions == [timestamp : {undefined}, metadata : {undefined} \cup ProductIds]

\* the options a call is made with vary in the field the rule set reads
OptionsFor(r) ==
    CASE r.name = "lengthBased"   -> {NoOptions}
      [] r.name = "metadataRules" -> MetadataOptions
      [] r.name = "defaultBinaryRules"
                                  -> [timestamp : BinaryTimestamps, metadata : {undefined}]
      [] OTHER                    -> TimestampOptions

\* binary payloads: under defaultBinaryRules with no options, also every
\* single byte value
BinaryPayloads(r, o) ==
    IF r = defaultBinaryRules /\ o = NoOptions
    THEN Payloads \cup {<<b>> : b \in ByteValues}
    ELSE Payloads

\* the modelled draws of Math.floor(Math.random() * n) for the salt length
SaltLenDraws(saltRange) ==
    {k \in drawSaltLenChoices(saltRange) :
        k < LowDraws \/ k >= Max(saltRange.max - saltRange.min + 1, 1) - HighDraws}

\* the modelled draws of the salt's characters: a repeated pattern
SaltPatterns == [1..SaltPeriod -> SaltDraws]
patternDraws(pat, len) == [i \in 1..len |-> pat[((i - 1) % SaltPeriod) + 1]]

ForeignEnvelopes == SeqsUpTo(ForeignChars, MaxForeignLen)

StringRules == {defaultRules, FiseBuilder_lengthBased}
BinaryRules == {defaultBinaryRules, metadataRules}

(***************************************************************************)
(* State: one call of encrypt followed by one call of decrypt, or one call *)
(* of decrypt on an envelope the caller supplies.                          *)
(***************************************************************************)
VARIABLES pc, path, rules, payload, encOptions, saltLen, salt, envelope,
          decOptions, result, call

vars == <<pc, path, rules, payload, encOptions, saltLen, salt, envelope,
          decOptions, result, call>>

\* the variables of one encrypt / decrypt exchange
exchange == <<pc, path, rules, payload, encOptions, saltLen, salt, envelope,
              decOptions, result>>

NoResult == [threw |-> FALSE, error |-> "", value |-> <<>>,
             saltLength |-> undefined, pos |-> undefined, encodedPos |-> undefined,
             salt |-> <<>>, cipherText |-> <<>>]

\* call: the last direct call of a rule function or of a normalizer function,
\* with its arguments and what it returned
NoCall == [op |-> "none"]

Init ==
    /\ pc = "idle"
    /\ path = "none"
    /\ rules = defaultRules
    /\ payload = <<>>
    /\ encOptions = NoOptions
    /\ saltLen = undefined
    /\ salt = <<>>
    /\ envelope = <<>>
    /\ decOptions = NoOptions
    /\ result = NoResult
    /\ call = NoCall

\* encryptFise(plaintext, cipher, rules, options)
Encrypt ==
    /\ pc = "idle"
    /\ \E r \in StringRules :
         \E p \in Payloads, o \in OptionsFor(r),
            k \in SaltLenDraws(saltRangeOf(r)), pat \in SaltPatterns :
            LET n == drawSaltLen(saltRangeOf(r), k)
                s == randomSalt(n, patternDraws(pat, n))
            IN  /\ rules' = r
                /\ payload' = p
                /\ encOptions' = o
                /\ saltLen' = n
                /\ salt' = s
                /\ envelope' = encryptFise(p, r, o, n, s)
    /\ path' = "string"
    /\ pc' = "encrypted"
    /\ UNCHANGED <<decOptions, result, call>>

\* fiseBinaryEncrypt(binaryData, rules, options)
EncryptBinary ==
    /\ pc = "idle"
    /\ \E r \in BinaryRules :
         \E o \in OptionsFor(r) :
           \E p \in BinaryPayloads(r, o),
              k \in SaltLenDraws(saltRangeOf(r)), pat \in SaltPatterns :
              LET n == drawSaltLen(saltRangeOf(r), k)
                  s == randomSaltBinary(n, patternDraws(pat, n))
              IN  /\ rules' = r
                  /\ payload' = p
                  /\ encOptions' = o
                  /\ saltLen' = n
                  /\ salt' = s
                  /\ envelope' = fiseBinaryEncrypt(p, r, o, n, s)
    /\ path' = "binary"
    /\ pc' = "encrypted"
    /\ UNCHANGED <<decOptions, result, call>>

\* decryptFise(envelope, cipher, rules, options) on the envelope held
Decrypt ==
    /\ pc = "encrypted"
    /\ path \in {"string", "foreign"}
    /\ \E o \in OptionsFor(rules) :
         /\ decOptions' = o
         /\ result' = decryptFise(envelope, rules, o)
    /\ pc' = "decrypted"
    /\ UNCHANGED <<path, rules, payload, encOptions, saltLen, salt, envelope, call>>

\* fiseBinaryDecrypt(envelope, rules, options) on the envelope encrypt returned
DecryptBinary ==
    /\ pc = "encrypted"
    /\ path = "binary"
    /\ \E o \in OptionsFor(rules) :
         /\ decOptions' = o
         /\ result' = fiseBinaryDecrypt(envelope, rules, o)
    /\ pc' = "decrypted"
    /\ UNCHANGED <<path, rules, payload, encOptions, saltLen, salt, envelope, call>>

\* the caller holds an envelope that encrypt did not build (corrupted,
\* truncated or invented) and will pass it to decryptFise with defaultRules
Receive ==
    /\ pc = "idle"
    /\ \E e \in ForeignEnvelopes : envelope' = e
    /\ path' = "foreign"
    /\ pc' = "encrypted"
    /\ UNCHANGED <<rules, payload, encOptions, saltLen, salt, decOptions, result, call>>

Next == Encrypt \/ EncryptBinary \/ Receive \/ Decrypt \/ DecryptBinary

Spec == Init /\ [][Next]_vars

(***************************************************************************)
(* The length codecs called directly: rules.encodeLength(n, ctx), then      *)
(* rules.decodeLength on the token it returned.                            *)
(***************************************************************************)
\* the characters custom alphabets are built from: 'a'..'l'
alphabetBase == [k \in 1..MaxAlphabetLen |-> Cha + (k - 1)]

\* a custom alphabet of n characters; j = k gives n distinct characters,
\* j # k repeats the character of position j at position k
customAlphabet(n, j, k) ==
    [i \in 1..n |-> IF i = k THEN alphabetBase[j] ELSE alphabetBase[i]]

CustomAlphabets ==
    {customAlphabet(n, j, k) : n \in MinAlphabetLen..MaxAlphabetLen,
                               j \in 1..MaxAlphabetLen, k \in 1..MaxAlphabetLen}

CodecRules ==
    {defaultRules, FiseBuilder_hex, FiseBuilder_base62, FiseBuilder_base64}
        \cup {FiseBuilder_customChars(a) : a \in {b \in CustomAlphabets : ~customCharsThrows(b)}}

\* the lengths the codecs are called with: the salt range of the rule set
CodecLengths(r) == (saltRangeOf(r).min)..(saltRangeOf(r).max)

InitCodec == Init

EncodeLength ==
    /\ call.op = "none"
    /\ \E r \in CodecRules :
         \E n \in CodecLengths(r) :
            call' = [op |-> "encodeLength", rules |-> r, n |-> n,
                     encoded |-> encodeLength(r, n, EmptyContext), decoded |-> undefined]
    /\ UNCHANGED exchange

DecodeLength ==
    /\ call.op = "encodeLength"
    /\ call' = [call EXCEPT !.op = "decodeLength",
                            !.decoded = decodeLength(call.rules, call.encoded, EmptyContext)]
    /\ UNCHANGED exchange

NextCodec == EncodeLength \/ DecodeLength

SpecCodec == InitCodec /\ [][NextCodec]_vars

(***************************************************************************)
(* The default extractSalt and stripSalt of normalizeFiseRules called      *)
(* directly on an envelope and a salt length.                              *)
(***************************************************************************)
SplitEnvelopes == SeqsUpTo(PayloadChars, MaxSplitLen)

InitExtract == Init

ExtractSalt ==
    /\ call.op = "none"
    /\ \E e \in SplitEnvelopes :
         \E k \in 0..(Len(e) + 1) :
            call' = [op |-> "extractSalt", e |-> e, k |-> k,
                     extracted |-> extractSalt(e, k, EmptyContext), stripped |-> <<>>]
    /\ UNCHANGED exchange

StripSalt ==
    /\ call.op = "extractSalt"
    /\ call' = [call EXCEPT !.op = "stripSalt",
                            !.stripped = stripSalt(call.e, call.k, EmptyContext)]
    /\ UNCHANGED exchange

NextExtract == ExtractSalt \/ StripSalt

SpecExtract == InitExtract /\ [][NextExtract]_vars

(***************************************************************************)
(* Properties.                                                             *)
(***************************************************************************)
\* the exchange went through encrypt of this module (not a supplied envelope)
Built == path \in {"string", "binary"}
\* rules is of the default family: defaultRules on strings, defaultBinaryRules on bytes
DefaultFamily == rules \in {defaultRules, defaultBinaryRules}
\* the ciphertext and the context of the encrypt call of this exchange
builtCipherText == cipher_encrypt(payload, salt)
builtContext == encryptContext(encOptions, saltLen)
\* the raw offset of the encrypt call and the position it inserted the token at
builtOffsetRaw == offset(rules, builtCipherText, builtContext)
builtOffset == clampOffset(builtOffsetRaw, builtCipherText)

\* C1: under the default rule family, with no timestamp and no metadata on
\* either side, decrypt of the envelope encrypt returned returns exactly the
\* payload, for every payload, salt length and salt content drawn
C1_RoundTripWithoutOptions ==
    (pc = "decrypted" /\ Built /\ DefaultFamily
        /\ encOptions = NoOptions /\ decOptions = NoOptions)
    => (~result.threw /\ result.value = payload)

\* a single byte 255 under the longest salt went through encrypt and decrypt
C1_Witness ==
    /\ pc = "decrypted" /\ path = "binary" /\ rules = defaultBinaryRules
    /\ encOptions = NoOptions /\ decOptions = NoOptions
    /\ payload = <<255>> /\ saltLen = DEFAULT_SALT_RANGE.max
    /\ ~result.threw /\ result.value = <<255>>

\* C2: under the default rule family, with the same timestamp and metadata on
\* both sides, decrypt returns exactly the payload and the search settles on
\* the salt length and the position encrypt used
C2_RoundTripWithMatchingContext ==
    (pc = "decrypted" /\ Built /\ DefaultFamily /\ decOptions = encOptions)
    => /\ ~result.threw
       /\ result.value = payload
       /\ result.saltLength = saltLen
       /\ result.pos = builtOffset

\* C3: the envelope encrypt returns is cipherText[0:o] ++ encodeLength(saltLen, ctx)
\* ++ cipherText[o:] ++ salt with o = max(0, min(rules.offset(cipherText, ctx),
\* len(cipherText))), and o lies within 0..len(cipherText)
C3_EnvelopeLayout ==
    (pc \in {"encrypted", "decrypted"} /\ Built)
    => /\ builtOffset \in 0..Len(builtCipherText)
       /\ builtOffset = Max(0, Min(builtOffsetRaw, Len(builtCipherText)))
       /\ envelope = SubSeq(builtCipherText, 1, builtOffset)
                        \o encodeLength(rules, saltLen, builtContext)
                        \o SubSeq(builtCipherText, builtOffset + 1, Len(builtCipherText))
                        \o salt

\* the lengthBased preset asked for offset 1 on an empty ciphertext and the
\* token went to position 0
C3_Witness ==
    /\ pc = "encrypted" /\ path = "string" /\ rules = FiseBuilder_lengthBased
    /\ payload = <<>>
    /\ builtOffsetRaw = 1 /\ builtOffset = 0
    /\ envelope = encodeLength(rules, saltLen, builtContext) \o salt

C5_EmptyPayload ==
    (pc \in {"encrypted", "decrypted"} /\ Built /\ builtCipherText = <<>>)
    => /\ envelope = encodeLength(rules, saltLen, builtContext) \o salt
       /\ (pc = "decrypted" /\ decOptions = encOptions)
              => (~result.threw /\ result.value = <<>>)

\* both sides gave a timestamp, or both gave metadata, and the two differ
ContextDiffers ==
    \/ /\ rules \in {defaultRules, defaultBinaryRules}
       /\ encOptions.timestamp # undefined /\ decOptions.timestamp # undefined
       /\ encOptions.timestamp # decOptions.timestamp
    \/ /\ rules = metadataRules
       /\ encOptions.metadata # undefined /\ decOptions.metadata # undefined
       /\ encOptions.metadata # decOptions.metadata

\* C6: decrypt with a timestamp (or metadata) different from the one encrypt
\* was given, under a rule set whose offset reads that field, throws and
\* returns no payload
C6_ContextBinding ==
    (pc = "decrypted" /\ Built /\ ContextDiffers) => result.threw

\* C7: decrypt of an envelope shorter than saltRange.min + encodedLengthSize
\* throws and returns no payload
C7_TooShortEnvelope ==
    (pc = "decrypted" /\ path = "foreign"
        /\ Len(envelope) < saltRangeOf(rules).min + encodedLengthSize(rules))
    => result.threw

\* C8: for 0 <= k <= len(e), extractSalt(e, k) has k elements, stripSalt(e, k)
\* has len(e) - k elements, and stripSalt(e, k) ++ extractSalt(e, k) = e
C8_ExtractionPartition ==
    (call.op = "stripSalt" /\ 0 <= call.k /\ call.k <= Len(call.e))
    => /\ Len(call.extracted) = call.k
       /\ Len(call.stripped) = Len(call.e) - call.k
       /\ call.stripped \o call.extracted = call.e

\* C9: for n in 10..99, defaultRules.encodeLength(n) is the two base36 digits
\* of n (the first one '0' when n < 36) and defaultRules.decodeLength of it is n
C9_DefaultLengthCodec ==
    (call.op = "decodeLength" /\ call.rules = defaultRules
        /\ call.n \in (DEFAULT_SALT_RANGE.min)..(DEFAULT_SALT_RANGE.max))
    => /\ Len(call.encoded) = 2
       /\ call.encoded = <<DigitChar(call.n \div 36), DigitChar(call.n % 36)>>
       /\ call.decoded = call.n

\* 10 was encoded as "0a" and decoded back
C9_Witness ==
    /\ call.op = "decodeLength" /\ call.rules = defaultRules
    /\ call.n = 10 /\ call.encoded = <<Ch0, Cha>> /\ call.decoded = 10

\* the encoding presets of FiseBuilder the codec was built by
EncodingPreset == call.rules.name \in {"hex", "base62", "base64", "customChars"}
\* no character occurs twice in the alphabet
PairwiseDistinct(a) == \A i, j \in 1..Len(a) : a[i] = a[j] => i = j

\* C10 as stated: for every encoding preset, customChars with any alphabet of
\* at least 10 characters included, and every n in 10..99, encodeLength(n) has
\* 2 symbols and decodeLength(encodeLength(n)) = n
C10_PresetLengthCodecs ==
    (call.op = "decodeLength" /\ EncodingPreset
        /\ call.n \in (PresetSaltRange.min)..(PresetSaltRange.max))
    => (Len(call.encoded) = 2 /\ call.decoded = call.n)

\* C10 amended: encodeLength(n) has 2 symbols for every alphabet of at least 10
\* characters; decodeLength(encodeLength(n)) = n for hex, base62, base64 and
\* for customChars with an alphabet of at least 10 pairwise distinct characters
C10_PresetLengthCodecsDistinct ==
    (call.op = "decodeLength" /\ EncodingPreset
        /\ call.n \in (PresetSaltRange.min)..(PresetSaltRange.max))
    => /\ Len(call.encoded) = 2
       /\ PairwiseDistinct(call.rules.alphabet) => call.decoded = call.n

\* customChars with the 11 distinct characters 'a'..'k' encoded 99 as "ja"
\* (9 * 11 + 0) and decoded it back
C10_Witness ==
    /\ call.op = "decodeLength" /\ call.rules.name = "customChars"
    /\ Len(call.rules.alphabet) = 11 /\ PairwiseDistinct(call.rules.alphabet)
    /\ call.n = 99 /\ call.encoded = <<Cha + 9, Cha>> /\ call.decoded = 99

(***************************************************************************)
(* defaultBinaryRules.encodeLength / decodeLength called directly.         *)
(***************************************************************************)
\* the largest length the two-byte token holds
UINT16_MAX == 65535

InitBinaryCodec == Init

EncodeLengthBinary ==
    /\ call.op = "none"
    /\ \E n \in 0..UINT16_MAX :
          call' = [op |-> "encodeLengthBinary", n |-> n,
                   encoded |-> defaultBinaryRules_encodeLength(n, EmptyContext),
                   decoded |-> undefined]
    /\ UNCHANGED exchange

DecodeLengthBinary ==
    /\ call.op = "encodeLengthBinary"
    /\ call' = [call EXCEPT !.op = "decodeLengthBinary",
                            !.decoded = defaultBinaryRules_decodeLength(call.encoded,
                                                                         EmptyContext)]
    /\ UNCHANGED exchange

NextBinaryCodec == EncodeLengthBinary \/ DecodeLengthBinary

SpecBinaryCodec == InitBinaryCodec /\ [][NextBinaryCodec]_vars

\* C11: for 0 <= n <= 65535, defaultBinaryRules.encodeLength(n) is the two
\* bytes <<n div 256, n mod 256>> and decodeLength of them is n
C11_BinaryLengthCodec ==
    (call.op = "decodeLengthBinary" /\ 0 <= call.n /\ call.n <= UINT16_MAX)
    => /\ call.encoded = <<call.n \div 256, call.n % 256>>
       /\ call.encoded[1] \in 0..255 /\ call.encoded[2] \in 0..255
       /\ call.decoded = call.n

\* 65535 was encoded as the bytes 255, 255 and 258 as 1, 2, and decoded back
C11_Witness ==
    /\ call.op = "decodeLengthBinary"
    /\ \/ call.n = UINT16_MAX /\ call.encoded = <<255, 255>> /\ call.decoded = UINT16_MAX
       \/ call.n = 258 /\ call.encoded = <<1, 2>> /\ call.decoded = 258

(***************************************************************************)
(* encryptFise / fiseBinaryEncrypt under rule sets that carry a saltRange  *)
(* of their own: the draw of the salt length and of the salt.              *)
(***************************************************************************)
\* the ends of a custom saltRange lie in (0 - RangeBelowZero)..RangeAboveZero
RangeBelowZero == 2
RangeAboveZero == 3

\* { ...rules, saltRange: { min, max } }
withSaltRange(r, min, max) ==
    [r EXCEPT !.saltRange = [given |-> TRUE, min |-> min, max |-> max]]

RangeEnds == (0 - RangeBelowZero)..RangeAboveZero
RangedRules ==
    {defaultRules, defaultBinaryRules, headRules, withSaltRange(headRules, 0, RangeAboveZero)}
        \cup {withSaltRange(r, lo, hi) :
                 r \in {defaultRules, defaultBinaryRules}, lo \in RangeEnds, hi \in RangeEnds}

\* the envelope of the call, by the path the rule set belongs to
encryptEither(p, r, o, n, s) ==
    IF r.name \in {b.name : b \in BinaryRules} THEN fiseBinaryEncrypt(p, r, o, n, s)
    ELSE encryptFise(p, r, o, n, s)

InitDraw == Init

\* one encrypt call, with what it drew and what it handed to the rule functions
EncryptRanged ==
    /\ call.op = "none"
    /\ \E r \in RangedRules :
         \E p \in Payloads, o \in {NoOptions, [timestamp |-> 1, metadata |-> undefined]},
            k \in SaltLenDraws(saltRangeOf(r)), pat \in SaltPatterns :
            LET n == drawSaltLen(saltRangeOf(r), k)
                s == IF r.name = "defaultBinaryRules"
                     THEN randomSaltBinary(n, patternDraws(pat, n))
                     ELSE randomSalt(n, patternDraws(pat, n))
            IN  call' = [op |-> "encrypt", rules |-> r, payload |-> p, options |-> o,
                         saltLen |-> n, salt |-> s,
                         ctx |-> encryptContext(o, n),
                         encodedLen |-> encodeLength(r, n, encryptContext(o, n)),
                         ruleCalls |-> encryptFise_ruleCalls,
                         envelope |-> encryptEither(p, r, o, n, s)]
    /\ UNCHANGED exchange

NextDraw == EncryptRanged

SpecDraw == InitDraw /\ [][NextDraw]_vars

\* what the claim says of one encrypt call: the salt length lies in the range,
\* the salt has that many elements, and that length is what encodeLength
\* encoded and what ctx.saltLength carries
DrawnWithinRange ==
    /\ saltRangeOf(call.rules).min <= call.saltLen
    /\ call.saltLen <= saltRangeOf(call.rules).max
    /\ Len(call.salt) = call.saltLen
    /\ call.ctx.saltLength = call.saltLen
    /\ call.encodedLen = encodeLength(call.rules, call.saltLen, call.ctx)

\* C12 as stated: for every saltRange with integers min <= max, encrypt draws
\* saltLen within min..max, generates a salt of exactly saltLen elements and
\* passes saltLen to encodeLength and as ctx.saltLength
C12_SaltDraw ==
    (call.op = "encrypt"
        /\ saltRangeOf(call.rules).min <= saltRangeOf(call.rules).max)
    => DrawnWithinRange

\* C12 amended: the same for every saltRange with integers 0 <= min <= max
C12_SaltDrawNonNegative ==
    (call.op = "encrypt"
        /\ 0 <= saltRangeOf(call.rules).min
        /\ saltRangeOf(call.rules).min <= saltRangeOf(call.rules).max)
    => DrawnWithinRange

\* a call under saltRange 1..3 drew the salt length 3 and a salt of 3 elements
C12_Witness ==
    /\ call.op = "encrypt"
    /\ call.rules.saltRange.min = 1 /\ call.rules.saltRange.max = 3
    /\ call.saltLen = 3 /\ Len(call.salt) = 3 /\ call.ctx.saltLength = 3


(***************************************************************************)
(* Two encrypt runs side by side.  Each run takes its own payload, rule    *)
(* set, options and draws; the second run starts after the first has       *)
(* returned, as two synchronous calls do.                                  *)
(***************************************************************************)
RunRules == {defaultRules, metadataRules, withSaltRange(defaultRules, 0, 2)}
RunPayloads == SeqsUpTo(PayloadChars, 1)
RunDraws == 0..1

\* a variant of a run whose envelope also carries whether a run came before it
runEnvelope_counted(p, r, o, n, s) ==
    encryptEither(p, r, o, n, s) \o (IF call.op = "none" THEN <<>> ELSE <<Ch0>>)

\* a variant of a run that returns its envelope without the trailing salt
runEnvelope_saltless(p, r, o, n, s) ==
    LET e == encryptEither(p, r, o, n, s) IN SubSeq(e, 1, Len(e) - Len(s))

\* the envelope one run returns
runEnvelope(p, r, o, n, s) == encryptEither(p, r, o, n, s)

\* the record of one run: what it was given, what it drew, what it returned
runOf(p, r, o, k, pat) ==
    LET n == drawSaltLen(saltRangeOf(r), k)
        s == IF r.name = "metadataRules"
             THEN randomSaltBinary(n, patternDraws(pat, n))
             ELSE randomSalt(n, patternDraws(pat, n))
    IN  [payload |-> p, rules |-> r, timestamp |-> o.timestamp,
         metadata |-> o.metadata, saltLen |-> n, salt |-> s,
         envelope |-> runEnvelope(p, r, o, n, s)]

RunInputs(r) == RunPayloads \X OptionsFor(r) \X RunDraws \X SaltPatterns

InitRuns == Init

RunFirst ==
    /\ call.op = "none"
    /\ \E r \in RunRules : \E in \in RunInputs(r) :
          call' = [op |-> "first", first |-> runOf(in[1], r, in[2], in[3], in[4]),
                   second |-> runOf(in[1], r, in[2], in[3], in[4])]
    /\ UNCHANGED exchange

RunSecond ==
    /\ call.op = "first"
    /\ \E r \in RunRules : \E in \in RunInputs(r) :
          call' = [call EXCEPT !.op = "second",
                               !.second = runOf(in[1], r, in[2], in[3], in[4])]
    /\ UNCHANGED exchange

NextRuns == RunFirst \/ RunSecond

SpecRuns == InitRuns /\ [][NextRuns]_vars

\* the two runs agree on payload, rule set, timestamp, metadata, drawn salt
\* length and drawn salt
RunsAgree ==
    /\ call.first.payload = call.second.payload
    /\ call.first.rules = call.second.rules
    /\ call.first.timestamp = call.second.timestamp
    /\ call.first.metadata = call.second.metadata
    /\ call.first.saltLen = call.second.saltLen
    /\ call.first.salt = call.second.salt

SaltsDiffer ==
    /\ call.first.payload = call.second.payload
    /\ call.first.rules = call.second.rules
    /\ call.first.timestamp = call.second.timestamp
    /\ call.first.metadata = call.second.metadata
    /\ call.first.salt # call.second.salt

\* C14: for a fixed payload, rule set and options, two encrypt runs whose drawn
\* salts differ in length or in content return different envelopes
C14_SaltVariation ==
    (call.op = "second" /\ SaltsDiffer) => call.first.envelope # call.second.envelope

\* two runs on the same non-empty payload drew salts of one length and
\* different content, and returned different envelopes
C14_Witness ==
    /\ call.op = "second" /\ SaltsDiffer
    /\ call.first.payload # <<>>
    /\ Len(call.first.salt) = Len(call.second.salt)
    /\ call.first.envelope # call.second.envelope


(***************************************************************************)
(* The cipher called directly: encrypt, then decrypt of the result, then   *)
(* encrypt of the result, all with the same non-empty salt.                *)
(***************************************************************************)
MaxCipherLen == 3
MaxCipherSaltLen == 4
CipherBytes == {0, 97, 255}
CipherTexts == SeqsUpTo(CipherBytes, MaxCipherLen)
CipherSalts == SeqsUpTo(CipherBytes, MaxCipherSaltLen) \ {<<>>}

InitCipher == Init

CipherEncrypt ==
    /\ call.op = "none"
    /\ \E p \in CipherTexts, s \in CipherSalts :
          call' = [op |-> "cipherEncrypt", p |-> p, s |-> s,
                   encrypted |-> cipher_encrypt(p, s),
                   decrypted |-> <<>>, twice |-> <<>>]
    /\ UNCHANGED exchange

CipherDecrypt ==
    /\ call.op = "cipherEncrypt"
    /\ call' = [call EXCEPT !.op = "cipherDecrypt",
                            !.decrypted = cipher_decrypt(call.encrypted, call.s)]
    /\ UNCHANGED exchange

CipherEncryptAgain ==
    /\ call.op = "cipherDecrypt"
    /\ call' = [call EXCEPT !.op = "cipherEncryptAgain",
                            !.twice = cipher_encrypt(call.encrypted, call.s)]
    /\ UNCHANGED exchange

NextCipher == CipherEncrypt \/ CipherDecrypt \/ CipherEncryptAgain

SpecCipher == InitCipher /\ [][NextCipher]_vars

\* C15: for every byte sequence p and non-empty salt s, encrypt(p, s) has the
\* length of p, decrypt(encrypt(p, s), s) = p and encrypt(encrypt(p, s), s) = p
C15_XorInvolution ==
    /\ call.op \in {"cipherEncrypt", "cipherDecrypt", "cipherEncryptAgain"}
          => (Len(call.s) > 0 => Len(call.encrypted) = Len(call.p))
    /\ call.op \in {"cipherDecrypt", "cipherEncryptAgain"}
          => (Len(call.s) > 0 => call.decrypted = call.p)
    /\ call.op = "cipherEncryptAgain"
          => (Len(call.s) > 0 => call.twice = call.p)

\* a payload longer than its salt, so that the salt wraps around, went through
\* encrypt, decrypt and encrypt again, and the cipher changed it
C15_Witness ==
    /\ call.op = "cipherEncryptAgain"
    /\ Len(call.p) > Len(call.s)
    /\ call.encrypted # call.p
    /\ call.encrypted[Len(call.p)] # call.p[Len(call.p)]
    /\ call.decrypted = call.p /\ call.twice = call.p


(***************************************************************************)
(* The search of preExtractLength step by step.  `call` holds the frame of *)
(* one decryptFise call: the loop variables len and i, withoutSalt of the  *)
(* current pass, and two counters of what the loops have examined.  op is  *)
(* the position in the code: "outer" and "inner" are the tests of the two  *)
(* for loops, "found" the return of the search, "returned" and "thrown"    *)
(* the two ways decryptFise ends.                                          *)
(***************************************************************************)
SearchChars == {ChPlus, Ch0, Ch0 + 1}
MaxSearchLen == 4
SearchRangeMax == 2
SearchRules ==
    {defaultRules, withSaltRange(defaultRules, 0, SearchRangeMax),
     withSaltRange(callerRules, 0, SearchRangeMax),
     withSaltRange(tailRules, 0, SearchRangeMax)}

\* the envelopes handed to decrypt: under the default range the envelopes of
\* encrypt, under a short range every short string
SearchEnvelopes(r) ==
    IF r.saltRange.given THEN SeqsUpTo(SearchChars, MaxSearchLen)
    ELSE {runOf(in[1], r, in[2], in[3], in[4]).envelope : in \in RunInputs(r)}

SearchOptions == {NoOptions, [timestamp |-> 1, metadata |-> undefined]}

\* for (let len = saltRange.min; ...) started at the other end
firstSaltLength_max(saltRange) == saltRange.max

\* for (let len = saltRange.min; len <= saltRange.max; len++)
firstSaltLength(saltRange) == saltRange.min
outerLoopContinues(len, saltRange) == len <= saltRange.max

\* the inner test widened to every position of withoutSalt
innerLoopContinues_toEnd(i, withoutSalt, size) == i <= Len(withoutSalt)

\* for (let i = 0; i <= withoutSalt.length - encodedLengthSize; i++)
innerLoopContinues(i, withoutSalt, size) == i <= Len(withoutSalt) - size

InitSearch == Init

\* decryptFise is entered: the rules are normalized, ctx is built and
\* preExtractLength starts its outer loop
SearchEnter ==
    /\ call.op = "none"
    /\ \E r \in SearchRules : \E e \in SearchEnvelopes(r), o \in SearchOptions :
          call' = [op |-> "outer", rules |-> r, envelope |-> e,
                   ctx |-> decryptContext(o),
                   len |-> firstSaltLength(saltRangeOf(r)), i |-> 0,
                   withoutSalt |-> <<>>, lengths |-> 0, positions |-> 0,
                   pre |-> NoMatch, result |-> NoResult]
    /\ UNCHANGED exchange

\* the test of the outer loop and the head of its body
OuterStep ==
    /\ call.op = "outer"
    /\ IF ~outerLoopContinues(call.len, saltRangeOf(call.rules))
       THEN call' = [call EXCEPT !.op = "thrown", !.result = inferenceFailure]
       ELSE LET withoutSalt == stripSalt(call.envelope, call.len, call.ctx)
            IN  IF Len(withoutSalt) < encodedLengthSize(call.rules)
                THEN call' = [call EXCEPT !.withoutSalt = withoutSalt,
                                          !.lengths = @ + 1, !.positions = 0,
                                          !.len = @ + 1]
                ELSE call' = [call EXCEPT !.op = "inner",
                                          !.withoutSalt = withoutSalt,
                                          !.lengths = @ + 1, !.positions = 0,
                                          !.i = 0]
    /\ UNCHANGED exchange

\* the test of the inner loop and its body
InnerStep ==
    /\ call.op = "inner"
    /\ IF ~innerLoopContinues(call.i, call.withoutSalt, encodedLengthSize(call.rules))
       THEN call' = [call EXCEPT !.op = "outer", !.len = @ + 1]
       ELSE IF matchesAt(call.rules, encodedLengthSize(call.rules), call.withoutSalt,
                         call.len, call.i, call.ctx)
            THEN call' = [call EXCEPT !.op = "found", !.positions = @ + 1,
                             !.pre = extracted(encodedLengthSize(call.rules),
                                               call.withoutSalt, call.len, call.i)]
            ELSE call' = [call EXCEPT !.positions = @ + 1, !.i = @ + 1]
    /\ UNCHANGED exchange

\* the rest of decryptFise after the search has returned
FastPath ==
    /\ call.op = "found"
    /\ LET r == decryptFise_fastPath(call.envelope, call.rules, call.ctx, call.pre)
       IN  call' = [call EXCEPT !.op = IF r.threw THEN "thrown" ELSE "returned",
                                !.result = r]
    /\ UNCHANGED exchange

NextSearch == SearchEnter \/ OuterStep \/ InnerStep \/ FastPath

SpecSearch == InitSearch /\ [][NextSearch]_vars

\* decryptFise is synchronous: once called, its steps follow one another
\* without suspension
SearchSteps == OuterStep \/ InnerStep \/ FastPath
SpecSearchFair == SpecSearch /\ WF_vars(SearchSteps)

Searching == call.op \in {"outer", "inner", "found", "returned", "thrown"}
Ended == call.op \in {"returned", "thrown"}

\* the step-by-step search ends as the search computed in one piece does
SearchAgreesWithDecryptFise ==
    Ended => call.result = decryptFise_after(call.envelope, call.rules, call.ctx,
                               preExtractLength(call.rules, call.envelope, call.ctx))

\* the counters stay within (max - min + 1) salt lengths and, for each salt
\* length, len(envelope) - encodedLengthSize + 1 positions (none when the
\* envelope is shorter than the token)
WithinSearchBudget ==
    Searching =>
        /\ call.lengths <= saltRangeOf(call.rules).max - saltRangeOf(call.rules).min + 1
        /\ call.positions
               <= Max(0, Len(call.envelope) - encodedLengthSize(call.rules) + 1)

\* C16: every decrypt call ends, returning or throwing, after at most (max - min + 1) salt
\* lengths and at most len(envelope) - encodedLengthSize + 1 positions for each,
\* and once it has ended the search is not entered again
C16_Termination ==
    /\ []WithinSearchBudget
    /\ Searching ~> Ended
    /\ [][Ended => (Ended' /\ UNCHANGED call)]_vars

\* a call has thrown after the whole range and, in its last pass, every
\* position of a full-length withoutSalt
C16_Witness ==
    /\ call.op = "thrown" /\ call.result.error = InferError
    /\ call.lengths = SearchRangeMax + 1
    /\ Len(call.envelope) = MaxSearchLen


\* the pair (len, i) lies in the searched range and passes both checks: the
\* token at i decodes to len and the offset recomputed on the candidate
\* ciphertext, with saltLength = len, is i
Passes(len, i) ==
    LET size        == encodedLengthSize(call.rules)
        withoutSalt == stripSalt(call.envelope, len, call.ctx)
    IN  /\ len \in (saltRangeOf(call.rules).min)..(saltRangeOf(call.rules).max)
        /\ i \in 0..(Len(withoutSalt) - size)
        /\ matchesAt(call.rules, size, withoutSalt, len, i, call.ctx)

PassingPairs ==
    {pair \in ((saltRangeOf(call.rules).min)..(saltRangeOf(call.rules).max))
                  \X (0..Len(call.envelope)) : Passes(pair[1], pair[2])}

\* C17: the search returns the passing pair with the smallest saltLen and, among
\* those, the smallest position; when no pair passes it throws the inference
\* error
C17_TieBreak ==
    /\ call.op = "found" =>
          /\ <<call.pre.saltLength, call.pre.pos>> \in PassingPairs
          /\ \A pair \in PassingPairs :
                \/ call.pre.saltLength < pair[1]
                \/ call.pre.saltLength = pair[1] /\ call.pre.pos <= pair[2]
    /\ (call.op = "thrown" /\ call.pre.threw) =>
          (PassingPairs = {} /\ call.result.error = InferError)
    /\ (Ended /\ PassingPairs = {}) =>
          (call.result.threw /\ call.result.error = InferError)

\* the search has returned a pair while a pair with a larger salt length passes
\* as well
SaltLengthTie ==
    /\ call.op = "found"
    /\ \E pair \in PassingPairs : call.pre.saltLength < pair[1]

\* the search has returned a pair while a pair with the same salt length and a
\* larger position passes as well
C17_Witness ==
    /\ call.op = "found"
    /\ \E pair \in PassingPairs :
          call.pre.saltLength = pair[1] /\ call.pre.pos < pair[2]


(***************************************************************************)
(* Several invocations in flight.  Each invocation has a frame with its    *)
(* arguments, its draws from Math.random and its local constants; a step   *)
(* of one invocation is a stretch of its code, and the steps of different  *)
(* invocations interleave in every order.  The code has no module-level    *)
(* variable: ALPHABET, DEFAULT_SALT_RANGE and DUMMY_CHAR are constants.    *)
(* `overlaps` records, for the properties, that the invocation was called  *)
(* while another was in flight.                                            *)
(***************************************************************************)
Invocations == {1, 2}
ConcurrentRules == {defaultRules, withSaltRange(defaultRules, 0, 2)}
ConcurrentOptions == {NoOptions, [timestamp |-> 1, metadata |-> undefined]}
ConcurrentPatterns == {pat \in SaltPatterns : pat[1] = 0}
ConcurrentEnvelopes(r) ==
    {encryptFise(p, r, o, drawSaltLen(saltRangeOf(r), k),
                 randomSalt(drawSaltLen(saltRangeOf(r), k),
                            patternDraws(pat, drawSaltLen(saltRangeOf(r), k)))) :
        p \in RunPayloads, o \in ConcurrentOptions, k \in RunDraws,
        pat \in ConcurrentPatterns}

IdleFrame ==
    [pc |-> "idle", kind |-> "none", rules |-> defaultRules, input |-> <<>>,
     options |-> NoOptions, k |-> 0, pat |-> <<0, 0>>,
     saltLen |-> undefined, salt |-> <<>>, cipherText |-> <<>>,
     pre |-> NoMatch, result |-> NoResult, overlaps |-> FALSE]

\* the frames of the invocations in flight
framesOf(c) == IF c.op = "none" THEN [self \in Invocations |-> IdleFrame] ELSE c.frames

\* a variant in which the locals are one set of module-level variables, so
\* that every invocation reads those the first invocation wrote
ownFrame_shared(frames, self) == frames[1]

\* the locals an invocation reads are those of its own call
ownFrame(frames, self) == frames[self]

\* the envelope assembled from the ciphertext: encryptFise from the offset on
assembleEnvelope(cipherText, r, o, n, s) ==
    LET ctx        == encryptContext(o, n)
        encodedLen == encodeLength(r, n, ctx)
        off        == clampOffset(offset(r, cipherText, ctx), cipherText)
    IN  slice(cipherText, 0, off) \o encodedLen \o sliceFrom(cipherText, off) \o s

returned(value) == [NoResult EXCEPT !.value = value]

\* another invocation is between its call and its return
otherInFlight(frames, self) ==
    \E other \in Invocations \ {self} : frames[other].pc \notin {"idle", "done"}

InitConcurrent == Init

\* encryptFise is called
InvokeEncrypt(self) ==
    /\ framesOf(call)[self].pc = "idle"
    /\ \E r \in ConcurrentRules, p \in RunPayloads, o \in ConcurrentOptions,
          k \in RunDraws, pat \in ConcurrentPatterns :
          call' = [op |-> "concurrent",
                   frames |-> [framesOf(call) EXCEPT ![self] =
                       [IdleFrame EXCEPT !.pc = "entered", !.kind = "encrypt",
                                         !.rules = r, !.input = p, !.options = o,
                                         !.k = k, !.pat = pat,
                                         !.overlaps = otherInFlight(framesOf(call), self)]]]
    /\ UNCHANGED exchange

\* decryptFise is called
InvokeDecrypt(self) ==
    /\ framesOf(call)[self].pc = "idle"
    /\ \E r \in ConcurrentRules : \E e \in ConcurrentEnvelopes(r), o \in ConcurrentOptions :
          call' = [op |-> "concurrent",
                   frames |-> [framesOf(call) EXCEPT ![self] =
                       [IdleFrame EXCEPT !.pc = "entered", !.kind = "decrypt",
                                         !.rules = r, !.input = e, !.options = o,
                                         !.overlaps = otherInFlight(framesOf(call), self)]]]
    /\ UNCHANGED exchange

\* encryptFise up to the salt: the salt length and the salt are drawn
EncryptDraw(self) ==
    /\ call.op = "concurrent"
    /\ call.frames[self].pc = "entered" /\ call.frames[self].kind = "encrypt"
    /\ LET f == ownFrame(call.frames, self)
           n == drawSaltLen(saltRangeOf(f.rules), f.k)
       IN  call' = [call EXCEPT !.frames[self].pc = "drawn",
                                !.frames[self].saltLen = n,
                                !.frames[self].salt = randomSalt(n, patternDraws(f.pat, n))]
    /\ UNCHANGED exchange

\* cipher.encrypt(plaintext, salt)
EncryptCipher(self) ==
    /\ call.op = "concurrent"
    /\ call.frames[self].pc = "drawn"
    /\ LET f == ownFrame(call.frames, self)
       IN  call' = [call EXCEPT !.frames[self].pc = "ciphered",
                                !.frames[self].cipherText = cipher_encrypt(f.input, f.salt)]
    /\ UNCHANGED exchange

\* the offset, the length token and the envelope returned
EncryptAssemble(self) ==
    /\ call.op = "concurrent"
    /\ call.frames[self].pc = "ciphered"
    /\ LET f == ownFrame(call.frames, self)
       IN  call' = [call EXCEPT !.frames[self].pc = "done",
                                !.frames[self].result =
                                    returned(assembleEnvelope(f.cipherText, f.rules,
                                                 f.options, f.saltLen, f.salt))]
    /\ UNCHANGED exchange

\* decryptFise up to the end of the search
DecryptSearch(self) ==
    /\ call.op = "concurrent"
    /\ call.frames[self].pc = "entered" /\ call.frames[self].kind = "decrypt"
    /\ LET f == ownFrame(call.frames, self)
       IN  call' = [call EXCEPT !.frames[self].pc = "searched",
                                !.frames[self].pre =
                                    preExtractLength(f.rules, f.input,
                                                     decryptContext(f.options))]
    /\ UNCHANGED exchange

\* decryptFise after the search: the throw of the search, or the fast path
DecryptFinish(self) ==
    /\ call.op = "concurrent"
    /\ call.frames[self].pc = "searched"
    /\ LET f == ownFrame(call.frames, self)
       IN  call' = [call EXCEPT !.frames[self].pc = "done",
                                !.frames[self].result =
                                    decryptFise_after(f.input, f.rules,
                                        decryptContext(f.options), f.pre)]
    /\ UNCHANGED exchange

NextConcurrent ==
    \E self \in Invocations :
        \/ InvokeEncrypt(self) \/ InvokeDecrypt(self)
        \/ EncryptDraw(self) \/ EncryptCipher(self) \/ EncryptAssemble(self)
        \/ DecryptSearch(self) \/ DecryptFinish(self)

SpecConcurrent == InitConcurrent /\ [][NextConcurrent]_vars

\* what the invocation returns when it runs alone with the same draws
aloneResult(f) ==
    IF f.kind = "encrypt"
    THEN returned(encryptFise(f.input, f.rules, f.options,
                      drawSaltLen(saltRangeOf(f.rules), f.k),
                      randomSalt(drawSaltLen(saltRangeOf(f.rules), f.k),
                                 patternDraws(f.pat, drawSaltLen(saltRangeOf(f.rules), f.k)))))
    ELSE decryptFise(f.input, f.rules, f.options)

\* every invocation that has returned has the result it has when run alone
ResultsAsAlone ==
    call.op = "concurrent" =>
        \A self \in Invocations :
            call.frames[self].pc = "done"
                => call.frames[self].result = aloneResult(call.frames[self])

\* a step writes the frame of one invocation only
OwnFrameOnly ==
    [][call.op = "concurrent" =>
          \E self \in Invocations :
              \A other \in Invocations \ {self} : call'.frames[other] = call.frames[other]]_vars

\* C18: in every interleaving each invocation returns what it returns when run
\* alone with the same draws, and no step of one invocation writes the frame
\* of another
C18_Independence == []ResultsAsAlone /\ OwnFrameOnly

\* an encrypt and a decrypt on different inputs have both returned, the second
\* having been called while the first was between its call and its return
C18_Witness ==
    /\ call.op = "concurrent"
    /\ \A self \in Invocations : call.frames[self].pc = "done"
    /\ call.frames[2].overlaps
    /\ call.frames[1].kind = "encrypt" /\ call.frames[2].kind = "decrypt"
    /\ call.frames[1].input # <<>>
    /\ ~call.frames[2].result.threw
    /\ call.frames[2].result.value # call.frames[1].input


(***************************************************************************)
(* randomSaltBinary called directly, over every value Math.random can      *)
(* select: Math.floor(Math.random() * n) with n = ALPHABET.length.         *)
(***************************************************************************)
MaxSaltLen == 2
AlphabetDraws == 0..(Len(ALPHABET) - 1)

InitSalt == Init

RandomSaltBinary ==
    /\ call.op = "none"
    /\ \E len \in 1..MaxSaltLen : \E draws \in [1..len -> AlphabetDraws] :
          call' = [op |-> "randomSaltBinary", len |-> len, draws |-> draws,
                   salt |-> randomSaltBinary(len, draws)]
    /\ UNCHANGED exchange

NextSalt == RandomSaltBinary

SpecSalt == InitSalt /\ [][NextSalt]_vars

Range(s) == {s[i] : i \in DOMAIN s}

\* a call of randomSaltBinary whose salt contains the byte b
DrawContaining(b) == RandomSaltBinary /\ b \in Range(call'.salt)

\* C19: for every byte value b in 0..255 there is a draw in which the binary
\* salt contains b
C19_RawRandomBytes ==
    call.op = "none" => \A b \in ByteValues : ENABLED DrawContaining(b)

\* what the code does: every byte of every binary salt is the code of a
\* character of ALPHABET
C19_SaltIsAlphanumeric ==
    call.op = "randomSaltBinary" =>
        /\ Len(call.salt) = call.len
        /\ \A i \in 1..Len(call.salt) : call.salt[i] \in Range(ALPHABET)


(***************************************************************************)
(* The offsets of the FiseBuilder presets over wide timestamps.  A         *)
(* timestamp is a non-negative integer hi * 2^31 + lo with 0 <= lo < 2^31, *)
(* held as its two parts so that values above 2^31 (Date.now() is about    *)
(* 2^40) are exact; `given` is FALSE when ctx.timestamp is undefined.      *)
(* JavaScript's + and % are exact on these values (below 2^53); ^ first    *)
(* converts its operands to 32-bit signed integers.                        *)
(***************************************************************************)
MaxTimestampHigh == 2
MaxTimestampLow == 3
MaxCipherTextLen == 4

WideTimestamps ==
    [given : {TRUE}, hi : 0..MaxTimestampHigh,
     lo : (0..MaxTimestampLow) \cup {INT32_MAX - 1, INT32_MAX}]

\* ToInt32(t): t modulo 2^32, read as a signed 32-bit integer
ToInt32(t) == IF t.hi % 2 = 0 THEN t.lo ELSE (t.lo - INT32_MAX) - 1

\* a ^ b for a small non-negative a and a signed 32-bit b: the sign bit of b
\* passes through, the other bits are XORed
BitXor32(a, b) ==
    IF b >= 0 THEN BitXor(a, b)
    ELSE (BitXor(a, (b + INT32_MAX) + 1) - INT32_MAX) - 1

\* a % n of JavaScript for a positive n: the result has the sign of a
remainder(a, n) ==
    IF a >= 0 THEN a % n ELSE 0 - ((((0 - (a + 1)) % n) + 1) % n)

\* simple, defaults, timestamp, prime: (len * multiplier + (t % modulo)) % len
simple_offset(multiplier, modulo, cipherText, ctx) ==
    LET t   == wideTimestampOrZero(ctx)
        len == lengthOrOne(cipherText)
    IN  (len * multiplier + wideMod(t, modulo)) % len

\* fixed: Math.floor(len / 2)
fixed_offset(cipherText, ctx) == lengthOrOne(cipherText) \div 2

\* xor: (len ^ t) % len
xor_offset(cipherText, ctx) ==
    LET t   == wideTimestampOrZero(ctx)
        len == lengthOrOne(cipherText)
    IN  remainder(BitXor32(len, ToInt32(t)), len)

OffsetPresets == {"defaults", "simple", "timestamp", "fixed", "prime", "multiFactor", "xor"}

FiseBuilder_offset(preset, cipherText, ctx) ==
    CASE preset = "defaults"    -> simple_offset(7, 11, cipherText, ctx)
      [] preset = "simple"      -> simple_offset(7, 11, cipherText, ctx)
      [] preset = "timestamp"   -> simple_offset(13, 17, cipherText, ctx)
      [] preset = "prime"       -> simple_offset(17, 23, cipherText, ctx)
      [] preset = "fixed"       -> fixed_offset(cipherText, ctx)
      [] preset = "multiFactor" -> multiFactor_offset(cipherText, ctx)
      [] preset = "xor"         -> xor_offset(cipherText, ctx)

InitOffset == Init

\* rules.offset(cipherText, ctx) of a preset, called as encrypt calls it: on a
\* non-empty ciphertext, with a timestamp and the salt length drawn
PresetOffset ==
    /\ call.op = "none"
    /\ \E preset \in OffsetPresets, len \in 1..MaxCipherTextLen,
          t \in WideTimestamps \cup {NoTimestamp},
          n \in {PresetSaltRange.min, PresetSaltRange.max} :
          LET cipherText == repeat(DUMMY_CHAR, len)
              ctx == [timestamp |-> t, saltLength |-> n, metadata |-> undefined]
          IN  call' = [op |-> "offset", preset |-> preset, cipherText |-> cipherText,
                       ctx |-> ctx,
                       offset |-> FiseBuilder_offset(preset, cipherText, ctx)]
    /\ UNCHANGED exchange

NextOffset == PresetOffset

SpecOffset == InitOffset /\ [][NextOffset]_vars

\* C20: for the presets defaults, simple, timestamp, fixed, prime, multiFactor
\* and xor, every non-empty ciphertext, every non-negative timestamp and every
\* salt length in range, 0 <= offset < len(cipherText)
C20_PresetOffsetInRange ==
    call.op = "offset" =>
        (0 <= call.offset /\ call.offset < Len(call.cipherText))

\* the same for the presets other than xor, and for xor below 2^31
C20_OffsetInRangeBelowSignBit ==
    (call.op = "offset"
        /\ (call.preset = "xor" => call.ctx.timestamp.hi % 2 = 0))
    => (0 <= call.offset /\ call.offset < Len(call.cipherText))


(***************************************************************************)
(* Offsets outside the ciphertext.                                         *)
(***************************************************************************)
\* the raw offset of the encrypt call lies outside [0, len(cipherText)]
OffsetOutOfRange == builtOffsetRaw < 0 \/ builtOffsetRaw > Len(builtCipherText)

\* C21: when the rule set's offset returns a value outside [0, len(cipherText)],
\* the position decrypt's search accepts is the clamped position encrypt
\* inserted the token at, and decrypt returns the payload
C21_ClampHonoured ==
    (pc = "decrypted" /\ Built /\ decOptions = encOptions /\ OffsetOutOfRange)
    => /\ ~result.threw
       /\ result.pos = builtOffset
       /\ result.value = payload


(***************************************************************************)
(* One encrypt call followed by one decrypt call of its envelope, under    *)
(* caller-built rule sets; `call` records what each call was given, what   *)
(* the search returned and what decrypt returned.                          *)
(***************************************************************************)
MaxPairLen == 3

PairPayloads == SeqsUpTo(PayloadChars, MaxPairLen)

\* a rule set whose offset reads the ciphertext's content, with one salt length
contentRules == withSaltRange(callerRules, 2, 2)

\* the hex preset with a salt range from which every length has three digits
hexRules == withSaltRange(FiseBuilder_hex, 256, 256)

\* rule sets whose salt range has max < min
emptyRangeRules == {withSaltRange(defaultRules, 2, 1), withSaltRange(defaultRules, 0, 0 - 1)}

PairRules == {contentRules, hexRules, FiseBuilder_multiFactor} \cup emptyRangeRules

\* under the multiFactor preset, whose search runs over 10..99: the shorter
\* payloads, the salt lengths 10, 11 and 99, salts of one repeated character
PairPayloadsOf(r) == IF r.name = "multiFactor" THEN Payloads ELSE PairPayloads
PairDraws(r) ==
    IF r.name = "multiFactor"
    THEN {0, 1, saltRangeOf(r).max - saltRangeOf(r).min}
    ELSE SaltLenDraws(saltRangeOf(r))
PairPatterns(r) ==
    IF r.name = "multiFactor"
    THEN {pat \in SaltPatterns : \A i \in DOMAIN pat : pat[i] = pat[1]}
    ELSE SaltPatterns

\* envelopes that no encrypt call returned
ReceivedEnvelopes == SeqsUpTo(SearchChars, MaxSearchLen)

\* the options of a call vary under the rule set that reads them
PairOptions(r) ==
    IF r.name = "multiFactor"
    THEN [timestamp : {NoTimestamp, [given |-> TRUE, hi |-> 0, lo |-> 1]},
          metadata : {undefined, 1}]
    ELSE {NoOptions}

\* normalizeFiseRules(rules): the resolved salt range, the calls it makes to
\* rules.encodeLength and the width it measures
normalizeFiseRules(r) ==
    [saltRange |-> saltRangeOf(r),
     probes |-> <<[len |-> 10, ctx |-> EmptyContext]>>,
     encodedLengthSize |-> encodedLengthSize(r)]

InitPair == Init

\* encryptFise(plaintext, cipher, rules, options)
EncryptPair ==
    /\ call.op = "none"
    /\ \E r \in PairRules :
         \E p \in PairPayloadsOf(r), o \in PairOptions(r),
            k \in PairDraws(r), pat \in PairPatterns(r) :
            LET n == drawSaltLen(saltRangeOf(r), k)
                s == randomSalt(n, patternDraws(pat, n))
            IN  call' = [op |-> "encrypted", rules |-> r, payload |-> p, options |-> o,
                         normalized |-> normalizeFiseRules(r),
                         saltLen |-> n, salt |-> s, ctx |-> encryptContext(o, n),
                         envelope |-> encryptFise(p, r, o, n, s)]
    /\ UNCHANGED exchange

\* decryptFise(envelope, cipher, rules, options) on the envelope encrypt returned
DecryptPair ==
    /\ call.op = "encrypted"
    /\ \E o \in PairOptions(call.rules) :
         LET pre == preExtractLength(call.rules, call.envelope, decryptContext(o))
         IN  call' = [op |-> "decrypted", rules |-> call.rules,
                      normalized |-> normalizeFiseRules(call.rules),
                      payload |-> call.payload, options |-> call.options,
                      saltLen |-> call.saltLen, salt |-> call.salt, ctx |-> call.ctx,
                      envelope |-> call.envelope, decOptions |-> o, pre |-> pre,
                      candidates |-> searchCandidates(call.rules),
                      offsetCalls |->
                          searchOffsetCalls(call.rules, encodedLengthSize(call.rules),
                              call.envelope, decryptContext(o), pre),
                      result |-> decryptFise_after(call.envelope, call.rules,
                                                   decryptContext(o), pre)]
    /\ UNCHANGED exchange

\* decryptFise(envelope, cipher, rules, options) on an envelope received
DecryptReceived ==
    /\ call.op = "none"
    /\ \E r \in PairRules : \E e \in ReceivedEnvelopes, o \in PairOptions(r) :
         LET pre == preExtractLength(r, e, decryptContext(o))
         IN  call' = [op |-> "received", rules |-> r,
                      normalized |-> normalizeFiseRules(r),
                      envelope |-> e, decOptions |-> o, pre |-> pre,
                      candidates |-> searchCandidates(r),
                      offsetCalls |->
                          searchOffsetCalls(r, encodedLengthSize(r), e,
                                            decryptContext(o), pre),
                      result |-> decryptFise_after(e, r, decryptContext(o), pre)]
    /\ UNCHANGED exchange

NextPair == EncryptPair \/ DecryptPair \/ DecryptReceived

SpecPair == InitPair /\ [][NextPair]_vars

\* a finished pair of calls made with the same options
PairDone == call.op = "decrypted" /\ call.decOptions = call.options

\* C22: under a rule set whose offset depends on the ciphertext's content
\* (deterministic, in range), decrypt finds the token position by the search,
\* removes the token at that validated position and returns the payload
C22_ContentDependentOffset ==
    (PairDone /\ call.rules = contentRules)
    => /\ ~call.result.threw
       /\ call.result.encodedPos = call.pre.pos
       /\ call.result.value = call.payload


(***************************************************************************)
(* The fast path against the search.                                       *)
(***************************************************************************)
\* the rule sets whose offset reads the ciphertext's length and the context only
LengthOnlyOffset(r) == r.name \in {"defaultRules", "tailRules"}

\* the candidate ciphertext of the pair the search returned
searchCandidate(r, pre) ==
    slice(pre.withoutLen, 0, pre.pos)
        \o sliceFrom(pre.withoutLen, pre.pos + encodedLengthSize(r))

\* the fast path has run on a pair the search returned
FastPathRan == Ended /\ ~call.pre.threw

\* C23: for a rule set whose offset depends on the ciphertext's length and the
\* context only, whenever the search succeeds with a pair (saltLen, i) the
\* clamped position of the fast path is i, the token check passes and the
\* ciphertext removed is the search's candidate, the empty candidate included
C23_FastPathAgrees ==
    (FastPathRan /\ LengthOnlyOffset(call.rules))
    => /\ call.result.encodedPos = call.pre.pos
       /\ ~call.result.threw
       /\ call.result.cipherText = searchCandidate(call.rules, call.pre)

\* the search succeeded on an empty candidate for which the placeholder's
\* offset lies beyond the ciphertext and is clamped back
C23_Witness ==
    /\ FastPathRan
    /\ LengthOnlyOffset(call.rules)
    /\ searchCandidate(call.rules, call.pre) = <<>>
    /\ offset(call.rules, placeholder(0),
              [call.ctx EXCEPT !.saltLength = call.pre.saltLength]) > 0
    /\ call.result.encodedPos = 0


(***************************************************************************)
(* The width probe of normalization.                                       *)
(***************************************************************************)
\* C24: normalizing a rule set calls encodeLength exactly once, with the
\* minimum of the rule set's salt range (10 when saltRange is omitted) and an
\* empty context, encodedLengthSize is the length of that result, and decrypt
\* searches for tokens of that width
C24_WidthProbe ==
    call.op \in {"encrypted", "decrypted"}
    => /\ call.normalized.probes
              = <<[len |-> saltRangeOf(call.rules).min, ctx |-> EmptyContext]>>
       /\ call.normalized.encodedLengthSize
              = Len(encodeLength(call.rules, saltRangeOf(call.rules).min, EmptyContext))
       /\ (call.op = "decrypted" /\ ~call.pre.threw)
              => Len(call.pre.encodedLength) = call.normalized.encodedLengthSize

\* the part of C24 that concerns the measured width alone
C24_WidthAtRangeMinimum ==
    call.op \in {"encrypted", "decrypted"}
    => call.normalized.encodedLengthSize
           = Len(encodeLength(call.rules, saltRangeOf(call.rules).min, EmptyContext))

\* under the hex preset with three-digit salt lengths the round trip holds
C24_HexRoundTrip ==
    (PairDone /\ call.rules = hexRules)
    => (~call.result.threw /\ call.result.value = call.payload)


(***************************************************************************)
(* The context the search hands to offset.                                 *)
(***************************************************************************)
\* the ciphertext of the pair's encrypt call
pairCipherText == cipher_encrypt(call.payload, call.salt)

\* C25: every offset call of decrypt's search receives the caller's timestamp
\* and metadata with saltLength equal to the candidate salt length; at the true
\* salt length that context is the one encrypt passed to offset, so the
\* multiFactor preset, which reads ctx.saltLength, computes the same position
C25_SearchContext ==
    (call.op = "decrypted" /\ call.rules = FiseBuilder_multiFactor)
    => /\ \A c \in call.offsetCalls :
              /\ c.ctx.timestamp = call.decOptions.timestamp
              /\ c.ctx.metadata = call.decOptions.metadata
              /\ c.ctx.saltLength = c.len
       /\ call.decOptions = call.options
              => /\ \A c \in call.offsetCalls :
                        c.len = call.saltLen => c.ctx = call.ctx
                 /\ offset(call.rules, pairCipherText,
                           searchContext(decryptContext(call.decOptions), call.saltLen))
                        = offset(call.rules, pairCipherText, call.ctx)

\* the search called offset at the true salt length, which is not the 10 the
\* preset falls back to, on a ciphertext where the salt length moves the token
C25_Witness ==
    /\ PairDone
    /\ call.rules = FiseBuilder_multiFactor
    /\ call.options.timestamp.given
    /\ call.saltLen # 10
    /\ \E c \in call.offsetCalls : c.len = call.saltLen
    /\ offset(call.rules, pairCipherText, call.ctx)
           # offset(call.rules, pairCipherText, decryptContext(call.decOptions))
    /\ ~call.result.threw
    /\ call.result.value = call.payload


(***************************************************************************)
(* The parts a returning decrypt hands to the cipher.                      *)
(***************************************************************************)
\* C26: whenever decrypt returns, the inferred saltLength lies in the salt
\* range, saltLength + encodedLengthSize <= len(envelope), the salt handed to
\* the cipher has saltLength elements and the ciphertext handed to it has
\* len(envelope) - saltLength - encodedLengthSize elements
C26_StructuralSoundness ==
    (pc = "decrypted" /\ path \in {"string", "foreign"} /\ ~result.threw)
    => /\ saltRangeOf(rules).min <= result.saltLength
       /\ result.saltLength <= saltRangeOf(rules).max
       /\ result.saltLength + encodedLengthSize(rules) <= Len(envelope)
       /\ Len(result.salt) = result.saltLength
       /\ Len(result.cipherText)
              = Len(envelope) - result.saltLength - encodedLengthSize(rules)


(***************************************************************************)
(* Where encrypt puts the salt.                                            *)
(***************************************************************************)
\* the range of a sequence of names
Called(calls) == {calls[i] : i \in 1..Len(calls)}

EmptyRange(r) == saltRangeOf(r).max < saltRangeOf(r).min

\* C28: under a rule set with saltRange.max < saltRange.min, encrypt returns
\* an envelope built with saltLen = saltRange.min, and decrypt of every
\* envelope examines no candidate salt length and throws the
\* cannot-infer-salt-length error
C28_EmptySaltRange ==
    (call.op # "none" /\ EmptyRange(call.rules))
    => /\ call.op \in {"encrypted", "decrypted"}
              => /\ call.saltLen = saltRangeOf(call.rules).min
                 /\ call.envelope
                        = encryptFise(call.payload, call.rules, call.options,
                                      saltRangeOf(call.rules).min, call.salt)
                 /\ Len(call.envelope)
                        = Len(call.payload) + encodedLengthSize(call.rules)
                              + Len(call.salt)
       /\ call.op \in {"decrypted", "received"}
              => /\ call.candidates = {}
                 /\ call.result.threw
                 /\ call.result.error = InferError

\* decrypt threw on the envelope encrypt built for a non-empty payload under
\* an empty range
C28_Witness ==
    /\ call.op = "decrypted"
    /\ EmptyRange(call.rules)
    /\ call.saltLen = 2
    /\ Len(call.salt) = 2
    /\ call.payload # <<>>
    /\ call.result.error = InferError

\* decrypt threw on a received envelope under an empty range
C28_ReceivedThrows ==
    /\ call.op = "received"
    /\ EmptyRange(call.rules)
    /\ call.envelope # <<>>
    /\ call.result.error = InferError


(***************************************************************************)
(* The offset of defaultRules and defaultBinaryRules on non-empty          *)
(* ciphertexts, over timestamps that pass the modulo several times and     *)
(* timestamps near 2^31.                                                   *)
(***************************************************************************)
MaxOffsetLen == 13
MaxOffsetTimestamp == 23

OffsetTimestamps ==
    {undefined} \cup 0..MaxOffsetTimestamp \cup {INT32_MAX - 1, INT32_MAX}
OffsetCipherTexts(r) ==
    {repeat(c, len) : c \in (IF r = defaultRules THEN PayloadChars ELSE {0, 255}),
                      len \in 1..MaxOffsetLen}

InitDefaultOffset == Init

\* rules.offset(cipherText, ctx) as encrypt calls it, and the clamp that follows
DefaultOffset ==
    /\ call.op = "none"
    /\ \E r \in {defaultRules, defaultBinaryRules} :
         \E c \in OffsetCipherTexts(r), t \in OffsetTimestamps,
            n \in {DEFAULT_SALT_RANGE.min, DEFAULT_SALT_RANGE.max} :
            LET ctx == [timestamp |-> t, saltLength |-> n, metadata |-> undefined]
            IN  call' = [op |-> "offset", rules |-> r, cipherText |-> c, ctx |-> ctx,
                         offsetRaw |-> offset(r, c, ctx),
                         offset |-> clampOffset(offset(r, c, ctx), c)]
    /\ UNCHANGED exchange

NextDefaultOffset == DefaultOffset

SpecDefaultOffset == InitDefaultOffset /\ [][NextDefaultOffset]_vars

\* C29: under defaultRules and defaultBinaryRules, on a non-empty ciphertext
\* of length len and a non-negative timestamp t, the offset is
\* (t mod 11) mod len: the token is never inserted beyond index 10, the
\* multiplier has no effect, and with the timestamp omitted or a multiple of
\* 11 the token is at index 0
C29_DefaultOffsetResidue ==
    call.op = "offset"
    => LET len == Len(call.cipherText)
           t   == timestampOrZero(call.ctx)
       IN  /\ call.offsetRaw = (t % MODULO) % len
           /\ call.offset = call.offsetRaw
           /\ call.offset <= MODULO - 1
           /\ \A m \in 0..(MULTIPLIER + 1) :
                  call.offsetRaw = (len * m + (t % MODULO)) % len
           /\ (call.ctx.timestamp = undefined \/ t % MODULO = 0) => call.offset = 0

\* the token goes to index 10 of a ciphertext longer than the modulo, for a
\* timestamp that has passed the modulo
C29_Witness ==
    /\ call.op = "offset"
    /\ Len(call.cipherText) > MODULO
    /\ call.ctx.timestamp > MODULO
    /\ call.offset = MODULO - 1

\* the residue exceeds the ciphertext's length and is reduced by it
C29_ReducedByLength ==
    /\ call.op = "offset"
    /\ call.ctx.timestamp # undefined
    /\ call.ctx.timestamp % MODULO >= Len(call.cipherText)
    /\ call.offset > 0


(***************************************************************************)
(* What the four entry points leave in the objects they are handed.  The   *)
(* objects of a call are named as the handler names them; `before` holds   *)
(* their values at the call, `after` their values at the return: an object *)
(* the handler stores into holds what was stored, any other its value.     *)
(***************************************************************************)
FrameRules == {defaultRules, FiseBuilder_lengthBased, defaultBinaryRules, metadataRules}
IsBinary(r) == r.name \in {b.name : b \in BinaryRules}
FramePayloads(r) ==
    IF IsBinary(r) THEN SeqsUpTo({0, 255}, 1) ELSE SeqsUpTo(PayloadChars, 1)
FrameOptions(r) ==
    IF r.name = "metadataRules" THEN {NoOptions, [timestamp |-> undefined, metadata |-> 123]}
    ELSE {NoOptions, [timestamp |-> 1, metadata |-> undefined]}

\* every handler storing the candidate salt length into the context it was built with
storesOf_sharedContext(handler) == {"ctx"}

\* the objects a handler assigns an element or a property of, itself or in the
\* functions it calls: encryptFise and decryptFise build strings and object
\* literals only; the binary pair fills the arrays it allocates (xorResult and
\* envelope, cipherText and decrypted)
storesOf(handler) ==
    CASE handler = "encryptFise"       -> {}
      [] handler = "decryptFise"       -> {}
      [] handler = "fiseBinaryEncrypt" -> {"xorResult", "envelope"}
      [] handler = "fiseBinaryDecrypt" -> {"cipherText", "decrypted"}

\* the objects of a call at its return
objectsAfter(handler, before, stored) ==
    [k \in DOMAIN before |-> IF k \in storesOf(handler) THEN stored[k] ELSE before[k]]

\* what normalization resolves, were it written back into the rule set
resolvedRules(r) == withSaltRange(r, saltRangeOf(r).min, saltRangeOf(r).max)

InitFrame == Init

\* encryptFise(plaintext, cipher, rules, options)
FrameEncrypt ==
    /\ call.op = "none"
    /\ \E r \in {x \in FrameRules : ~IsBinary(x)} :
         \E p \in FramePayloads(r), o \in FrameOptions(r),
            k \in RunDraws, pat \in SaltPatterns :
            LET n == drawSaltLen(saltRangeOf(r), k)
                s == randomSalt(n, patternDraws(pat, n))
                before == [plaintext |-> p, rules |-> r, options |-> o]
                stored == [plaintext |-> cipher_encrypt(p, s), rules |-> resolvedRules(r),
                           options |-> encryptContext(o, n)]
            IN  call' = [op |-> "encrypted", handler |-> "encryptFise",
                         before |-> before,
                         after |-> objectsAfter("encryptFise", before, stored),
                         payload |-> p, rules |-> r, options |-> o,
                         out |-> encryptFise(p, r, o, n, s)]
    /\ UNCHANGED exchange

\* fiseBinaryEncrypt(binaryData, rules, options)
FrameEncryptBinary ==
    /\ call.op = "none"
    /\ \E r \in {x \in FrameRules : IsBinary(x)} :
         \E p \in FramePayloads(r), o \in FrameOptions(r),
            k \in RunDraws, pat \in SaltPatterns :
            LET n == drawSaltLen(saltRangeOf(r), k)
                s == randomSaltBinary(n, patternDraws(pat, n))
                before == [binaryData |-> p, rules |-> r, options |-> o]
                stored == [binaryData |-> cipher_encrypt(p, s), rules |-> resolvedRules(r),
                           options |-> encryptContext(o, n)]
            IN  call' = [op |-> "encrypted", handler |-> "fiseBinaryEncrypt",
                         before |-> before,
                         after |-> objectsAfter("fiseBinaryEncrypt", before, stored),
                         payload |-> p, rules |-> r, options |-> o,
                         out |-> fiseBinaryEncrypt(p, r, o, n, s)]
    /\ UNCHANGED exchange

\* decryptFise(envelope, cipher, rules, options) on the envelope encrypt returned;
\* ctx is the context decrypt builds and hands to the search
FrameDecrypt ==
    /\ call.op = "encrypted"
    /\ call.handler = "encryptFise"
    /\ \E o \in FrameOptions(call.rules) :
         LET res    == decryptFise(call.out, call.rules, o)
             before == [envelope |-> call.out, rules |-> call.rules, options |-> o,
                        ctx |-> decryptContext(o)]
             stored == [envelope |-> res.cipherText, rules |-> resolvedRules(call.rules),
                        options |-> searchContext(decryptContext(o), res.saltLength),
                        ctx |-> searchContext(decryptContext(o), res.saltLength)]
         IN  call' = [op |-> "decrypted", handler |-> "decryptFise",
                      before |-> before,
                      after |-> objectsAfter("decryptFise", before, stored),
                      payload |-> call.payload, rules |-> call.rules, options |-> o,
                      out |-> res]
    /\ UNCHANGED exchange

\* fiseBinaryDecrypt(envelope, rules, options) on the envelope encrypt returned
FrameDecryptBinary ==
    /\ call.op = "encrypted"
    /\ call.handler = "fiseBinaryEncrypt"
    /\ \E o \in FrameOptions(call.rules) :
         LET res    == fiseBinaryDecrypt(call.out, call.rules, o)
             before == [envelope |-> call.out, rules |-> call.rules, options |-> o,
                        ctx |-> decryptContext(o)]
             stored == [envelope |-> res.cipherText, rules |-> resolvedRules(call.rules),
                        options |-> searchContext(decryptContext(o), res.saltLength),
                        ctx |-> searchContext(decryptContext(o), res.saltLength)]
         IN  call' = [op |-> "decrypted", handler |-> "fiseBinaryDecrypt",
                      before |-> before,
                      after |-> objectsAfter("fiseBinaryDecrypt", before, stored),
                      payload |-> call.payload, rules |-> call.rules, options |-> o,
                      out |-> res]
    /\ UNCHANGED exchange

NextFrame == FrameEncrypt \/ FrameEncryptBinary \/ FrameDecrypt \/ FrameDecryptBinary

SpecFrame == InitFrame /\ [][NextFrame]_vars

C30_EncryptReturned ==
    /\ call.op = "encrypted"
    /\ call.handler = "encryptFise"
    /\ call.payload # <<>>
    /\ call.after = call.before

=============================================================================
